---- MODULE Spec2Model ----
(***************************************************************************)
(* Mastery / adaptive store of the ear trainer (store/progressStore.ts,    *)
(* store/storage.ts) as a state machine.                                   *)
(*                                                                         *)
(* Numbers.  The store computes with IEEE doubles.  Fractions (rolling     *)
(* accuracy, mastery, sampling weights) are represented here in fixed      *)
(* point, as integers counting units of 1/SCALE and rounded down after     *)
(* every multiplication or division.  Date.now() is represented in whole   *)
(* hours, so DAY_MS counts the clock units of one day.                     *)
(*                                                                         *)
(* Persistence.  localStorage is a function from the keys present to the   *)
(* stored values.  JSON.stringify / JSON.parse copy a value made of finite *)
(* numbers, strings, booleans, arrays and plain objects field by field, so *)
(* the stored value is the written value, but never the written object:    *)
(* the only object shared between calls is DEFAULT_PROGRESS.               *)
(*                                                                         *)
(* The attempts array of the progress state is represented by the number   *)
(* of its records; no function of the store reads a record back.           *)
(***************************************************************************)
EXTENDS Integers, Sequences, FiniteSets, TLC

VARIABLES
  localStorage,      \* window.localStorage: key -> stored value
  DEFAULT_PROGRESS,  \* the module-level object handed out as fallback
  now,               \* Date.now()
  call,              \* the last operation: its inputs, the buckets it read, its result
  tabs               \* the pages open on the same storage: where each is in recordAttempt

vars == <<localStorage, DEFAULT_PROGRESS, now, call, tabs>>

----------------------------------------------------------------------------
(* Program constants *)

KEY == "et_progress_v1"
DAY_MS == 24
REVIEW_INTERVALS_DAYS == <<1, 3, 7, 14, 30>>
SCALE == 10000000
ATTEMPTS_CAP == 2000

Undefined == "<undefined>"

TrainingModes ==
  {"scale_degree", "functional_interval", "functional_harmony", "timing_grid", "phrase_recall"}

----------------------------------------------------------------------------
(* Bounds of the model *)

MaxAttempts == 2        \* recordAttempt calls in the mixed specification
MaxQueueAttempts == 10  \* recordAttempt calls in the queue specification
MaxQueueSlipAt == 1     \* the queue specification takes wrong answers only this early
MaxDrillAttempts == 14  \* recordAttempt calls in the drill specification
MaxDrillWrong == 2      \* incorrect outcomes in the drill specification
MaxClockDays == 12      \* the clock stops this many days after the start
MaxQueueClockDays == 6  \* the same in the queue specification
MaxLimit == 2           \* largest limit passed to getReviewFocus
MaxScheduleAttempts == 11 \* recordAttempt calls in the schedule specification
MaxScheduleLimit == 3    \* limit passed to getReviewFocus in the schedule specification

StartNow == DAY_MS
TickDays == {6, 12}
QueueTickDays == {6}

ItemPool == {"q_1"}
ResponsePool == {1500}
ContextPool == {"scale_degree:melodic:major", "functional_harmony:harmonic:minor", Undefined}
KeyLists == {<<"degree:3", "degree:3">>, <<"quality:major", "function:tonic">>, <<"resolution:7->1">>}

DrillContext == "scale_degree:melodic:major"
DrillKeys == {"degree:3", "degree:5"}
DrillKeyLists == {<<"degree:3">>}
QueueKeyLists == {<<"degree:3">>, <<"degree:5">>}
ScheduleKeyLists == {<<"degree:3">>, <<"degree:5">>, <<"resolution:7->1">>}
\* an optional array argument: absent, or the modes it lists
NoModePool == [given |-> FALSE]
ModePools == {NoModePool, [given |-> TRUE, modes |-> {"scale_degree"}]}
TonalGroups == {Undefined, "major", "minor", "mixed"}

----------------------------------------------------------------------------
(* String helpers (String.prototype.startsWith / includes) *)

startsWith(s, prefix) ==
  /\ Len(s) >= Len(prefix)
  /\ SubSeq(s, 1, Len(prefix)) = prefix

includes(s, part) ==
  \E i \in 1..(Len(s) - Len(part) + 1) : SubSeq(s, i, i + Len(part) - 1) = part

Min(a, b) == IF a <= b THEN a ELSE b
Max(a, b) == IF a >= b THEN a ELSE b

----------------------------------------------------------------------------
(* progressStore.ts helpers *)

inferModeFromKey(key) ==
  IF \/ startsWith(key, "meter:") \/ startsWith(key, "subdivision:")
     \/ startsWith(key, "syncopation:") \/ startsWith(key, "tap:")
  THEN "timing_grid"
  ELSE IF startsWith(key, "phrase:") THEN "phrase_recall"
  ELSE IF startsWith(key, "movement:") THEN "functional_interval"
  ELSE IF \/ startsWith(key, "quality:") \/ startsWith(key, "function:")
          \/ startsWith(key, "progression:") \/ startsWith(key, "cadence:")
          \/ startsWith(key, "changed_position:")
  THEN "functional_harmony"
  ELSE "scale_degree"

clamp01(value) == Max(0, Min(SCALE, value))

\* variant: the context is left out of the id
bucketIdOfKeyOnly(context, key) == key

bucketId(context, key) == context \o "::" \o key

\* variant: the comparison admits the current interval itself
nextIntervalDaysNotStrict(currentInterval) ==
  LET later == {i \in 1..Len(REVIEW_INTERVALS_DAYS) : REVIEW_INTERVALS_DAYS[i] >= currentInterval}
  IN IF later = {}
     THEN REVIEW_INTERVALS_DAYS[Len(REVIEW_INTERVALS_DAYS)]
     ELSE REVIEW_INTERVALS_DAYS[CHOOSE i \in later : \A j \in later : i <= j]

nextIntervalDays(currentInterval) ==
  LET later == {i \in 1..Len(REVIEW_INTERVALS_DAYS) : REVIEW_INTERVALS_DAYS[i] > currentInterval}
  IN IF later = {}
     THEN REVIEW_INTERVALS_DAYS[Len(REVIEW_INTERVALS_DAYS)]
     ELSE REVIEW_INTERVALS_DAYS[CHOOSE i \in later : \A j \in later : i <= j]

tonalGroupFromContext(context) ==
  IF includes(context, ":major") THEN "major"
  ELSE IF includes(context, ":minor") THEN "minor"
  ELSE "mixed"

\* Math.min(1, Math.log10(1 + attempts)), in units of 1/10000
LogConfidence(attempts) ==
  IF attempts >= 9 THEN 10000
  ELSE <<0, 3010, 4771, 6020, 6989, 7781, 8450, 9030, 9542>>[attempts + 1]

computeMastery(m) ==
  LET acc == IF m.attempts > 0 THEN (m.correct * SCALE) \div m.attempts ELSE 0
      confidence == LogConfidence(m.attempts)
      blended == (m.rollingAccuracy * 6 + acc * 4) \div 10
  IN clamp01(((blended \div 1000) * confidence) \div 10)

\* alpha * x + (1 - alpha) * previous with alpha = 0.35
Ewma(x, previous) == (35 * x + 65 * previous) \div 100

----------------------------------------------------------------------------
(* Reading the progress state *)

IndexOfId(adaptive, id) ==
  LET hits == {i \in 1..Len(adaptive) : adaptive[i].id = id}
  IN IF hits = {} THEN 0 ELSE CHOOSE i \in hits : TRUE

HasField(r, f) == f \in DOMAIN r

normalizeBucket(bucket) ==
  LET key == IF HasField(bucket, "key") THEN bucket.key ELSE bucket.id
      context == IF HasField(bucket, "context") THEN bucket.context ELSE "global"
      attempts == IF HasField(bucket, "attempts") THEN bucket.attempts ELSE 0
      rawCorrect == IF HasField(bucket, "correct") THEN bucket.correct ELSE 0
      wrong == IF HasField(bucket, "wrong") THEN bucket.wrong ELSE Max(0, attempts - rawCorrect)
      correct == IF HasField(bucket, "correct") THEN bucket.correct ELSE Max(0, attempts - wrong)
      rollingAccuracy ==
        IF HasField(bucket, "rollingAccuracy") THEN bucket.rollingAccuracy
        ELSE IF attempts > 0 THEN (correct * SCALE) \div attempts ELSE 0
      mode ==
        IF HasField(bucket, "mode") /\ bucket.mode \in TrainingModes
        THEN bucket.mode ELSE inferModeFromKey(key)
  IN [ id |-> bucket.id,
       key |-> key,
       context |-> context,
       mode |-> mode,
       attempts |-> attempts,
       correct |-> correct,
       wrong |-> wrong,
       lastSeen |-> IF HasField(bucket, "lastSeen") THEN bucket.lastSeen ELSE 0,
       rollingAccuracy |-> rollingAccuracy,
       avgResponseMs |-> IF HasField(bucket, "avgResponseMs") THEN bucket.avgResponseMs ELSE 0,
       mastery |-> IF HasField(bucket, "mastery") THEN bucket.mastery ELSE clamp01(rollingAccuracy),
       intervalDays |-> IF HasField(bucket, "intervalDays") THEN bucket.intervalDays ELSE 0,
       dueAt |-> IF HasField(bucket, "dueAt") THEN bucket.dueAt ELSE 0,
       lastOutcomeCorrect |->
         IF HasField(bucket, "lastOutcomeCorrect") THEN bucket.lastOutcomeCorrect ELSE TRUE ]

\* variant: each bucket is read as one of the first storage format, which
\* held the identity and the two counters only
normalizeAdaptiveFromCounters(raw) ==
  [i \in 1..Len(raw) |->
    normalizeBucket([f \in {"id", "attempts", "correct", "lastSeen"} |-> raw[i][f]])]

normalizeAdaptive(raw) == [i \in 1..Len(raw) |-> normalizeBucket(raw[i])]

normalizeItems(raw) ==
  [id \in DOMAIN raw |->
    [ attempts |-> raw[id].attempts,
      correct |-> raw[id].correct,
      streak |-> raw[id].streak,
      lastSeen |-> raw[id].lastSeen,
      mastery |-> raw[id].mastery,
      rollingAccuracy |-> raw[id].rollingAccuracy,
      avgResponseMs |-> raw[id].avgResponseMs ]]

readLocal(key, fallback) ==
  IF key \in DOMAIN localStorage THEN localStorage[key] ELSE fallback

getProgress ==
  LET raw == readLocal(KEY, DEFAULT_PROGRESS)
  IN [ attempts |-> raw.attempts,
       items |-> normalizeItems(raw.items),
       adaptive |-> normalizeAdaptive(raw.adaptive),
       totals |-> raw.totals ]

----------------------------------------------------------------------------
(* recordAttempt *)

NewBucket(id, adaptiveKey, context) ==
  [ id |-> id, key |-> adaptiveKey, context |-> context,
    mode |-> inferModeFromKey(adaptiveKey),
    attempts |-> 0, correct |-> 0, wrong |-> 0, lastSeen |-> 0,
    rollingAccuracy |-> 0, avgResponseMs |-> 0, mastery |-> 0,
    intervalDays |-> 0, dueAt |-> 0, lastOutcomeCorrect |-> TRUE ]

\* variant: the else branch that counts a wrong answer is missing
countAttemptNoWrong(bucket, correct) ==
  [ attempts |-> bucket.attempts + 1,
    correct |-> IF correct THEN bucket.correct + 1 ELSE bucket.correct,
    wrong |-> bucket.wrong ]

\* lines 323-328: the counters of one attempt
countAttempt(bucket, correct) ==
  [ attempts |-> bucket.attempts + 1,
    correct |-> IF correct THEN bucket.correct + 1 ELSE bucket.correct,
    wrong |-> IF correct THEN bucket.wrong ELSE bucket.wrong + 1 ]

\* variant: full confidence after 5 attempts instead of 10
masteryOfShortWindow(rollingAccuracy, correct, attempts) ==
  LET rawAcc == IF attempts > 0 THEN (correct * SCALE) \div attempts ELSE 0
      confidence10 == Min(10, 2 * attempts)
  IN Max(0, Min(SCALE, ((rollingAccuracy * 7 + rawAcc * 3) * confidence10) \div 100))

\* variant: the confidence ratio is inverted, min(1, 10 / attempts)
masteryOfInvertedConfidence(rollingAccuracy, correct, attempts) ==
  LET rawAcc == IF attempts > 0 THEN (correct * SCALE) \div attempts ELSE 0
      confidence10 == Min(10, 100 \div attempts)
  IN Max(0, Min(SCALE, ((rollingAccuracy * 7 + rawAcc * 3) * confidence10) \div 100))

\* lines 334-336: (rollingAccuracy * 0.7 + rawAcc * 0.3) * min(1, attempts / 10)
masteryOf(rollingAccuracy, correct, attempts) ==
  LET rawAcc == IF attempts > 0 THEN (correct * SCALE) \div attempts ELSE 0
      confidence10 == Min(10, attempts)
  IN clamp01(((rollingAccuracy * 7 + rawAcc * 3) * confidence10) \div 100)

\* variant: a wrong answer makes the bucket due but keeps its interval
rescheduleKeepsInterval(correct, mastery, intervalDays, ts) ==
  IF ~correct THEN [ intervalDays |-> intervalDays, dueAt |-> ts ]
  ELSE IF mastery * 100 >= 82 * SCALE
  THEN [ intervalDays |-> nextIntervalDays(intervalDays),
         dueAt |-> ts + nextIntervalDays(intervalDays) * DAY_MS ]
  ELSE [ intervalDays |-> 0, dueAt |-> ts ]

\* variant: the interval advances from the weak-review threshold 0.72 on
rescheduleAtWeakThreshold(correct, mastery, intervalDays, ts) ==
  IF ~correct THEN [ intervalDays |-> 0, dueAt |-> ts ]
  ELSE IF mastery * 100 >= 72 * SCALE
  THEN [ intervalDays |-> nextIntervalDays(intervalDays),
         dueAt |-> ts + nextIntervalDays(intervalDays) * DAY_MS ]
  ELSE [ intervalDays |-> 0, dueAt |-> ts ]

\* lines 338-347: the review schedule after the attempt
\* variant: a correct answer below the threshold rests the bucket for a day
rescheduleRestsUnconfident(correct, mastery, intervalDays, ts) ==
  IF ~correct THEN [ intervalDays |-> 0, dueAt |-> ts ]
  ELSE IF mastery * 100 >= 82 * SCALE
  THEN [ intervalDays |-> nextIntervalDays(intervalDays),
         dueAt |-> ts + nextIntervalDays(intervalDays) * DAY_MS ]
  ELSE [ intervalDays |-> 0, dueAt |-> ts + DAY_MS ]

reschedule(correct, mastery, intervalDays, ts) ==
  IF ~correct THEN [ intervalDays |-> 0, dueAt |-> ts ]
  ELSE IF mastery * 100 >= 82 * SCALE
  THEN [ intervalDays |-> nextIntervalDays(intervalDays),
         dueAt |-> ts + nextIntervalDays(intervalDays) * DAY_MS ]
  ELSE [ intervalDays |-> 0, dueAt |-> ts ]

\* one iteration of the loop over input.adaptiveKeys, lines 323-347
UpdateBucket(bucket, correct, responseMs, ts) ==
  LET counted == countAttempt(bucket, correct)
      outcome == IF correct THEN SCALE ELSE 0
      rollingAccuracy ==
        IF counted.attempts = 1 THEN outcome ELSE Ewma(outcome, bucket.rollingAccuracy)
      avgResponseMs ==
        IF counted.attempts = 1 THEN responseMs ELSE Ewma(responseMs, bucket.avgResponseMs)
      mastery == masteryOf(rollingAccuracy, counted.correct, counted.attempts)
      schedule == reschedule(correct, mastery, bucket.intervalDays, ts)
  IN [ bucket EXCEPT
         !.attempts = counted.attempts,
         !.correct = counted.correct,
         !.wrong = counted.wrong,
         !.lastSeen = ts,
         !.lastOutcomeCorrect = correct,
         !.rollingAccuracy = rollingAccuracy,
         !.avgResponseMs = avgResponseMs,
         !.mastery = mastery,
         !.intervalDays = schedule.intervalDays,
         !.dueAt = schedule.dueAt ]

RECURSIVE UpdateAdaptive(_, _, _, _, _, _)
UpdateAdaptive(adaptive, keys, contextKey, correct, responseMs, ts) ==
  IF keys = <<>> THEN adaptive
  ELSE
    LET adaptiveKey == Head(keys)
        context == IF contextKey = Undefined THEN "global" ELSE contextKey
        id == bucketId(context, adaptiveKey)
        at == IndexOfId(adaptive, id)
        bucket == IF at = 0 THEN NewBucket(id, adaptiveKey, context) ELSE adaptive[at]
        updated == UpdateBucket(bucket, correct, responseMs, ts)
        next == IF at = 0 THEN Append(adaptive, updated) ELSE [adaptive EXCEPT ![at] = updated]
    IN UpdateAdaptive(next, Tail(keys), contextKey, correct, responseMs, ts)

UpdateTotals(totals, correct) ==
  IF correct
  THEN [ attempts |-> totals.attempts + 1,
         correct |-> totals.correct + 1,
         streak |-> totals.streak + 1,
         bestStreak |-> Max(totals.bestStreak, totals.streak + 1) ]
  ELSE [ totals EXCEPT !.attempts = totals.attempts + 1, !.streak = 0 ]

UpdateItem(items, itemId, correct, responseMs, ts) ==
  LET cur == IF itemId \in DOMAIN items THEN items[itemId]
             ELSE [ attempts |-> 0, correct |-> 0, streak |-> 0, lastSeen |-> 0,
                    mastery |-> 0, rollingAccuracy |-> 0, avgResponseMs |-> 0 ]
      attempts == cur.attempts + 1
      outcome == IF correct THEN SCALE ELSE 0
      counted == [ cur EXCEPT
                     !.attempts = attempts,
                     !.correct = IF correct THEN cur.correct + 1 ELSE cur.correct,
                     !.streak = IF correct THEN cur.streak + 1 ELSE 0,
                     !.lastSeen = ts,
                     !.rollingAccuracy = IF attempts = 1 THEN outcome ELSE Ewma(outcome, cur.rollingAccuracy),
                     !.avgResponseMs = IF attempts = 1 THEN responseMs ELSE Ewma(responseMs, cur.avgResponseMs) ]
      scored == [ counted EXCEPT !.mastery = computeMastery(counted) ]
  IN [id \in DOMAIN items \cup {itemId} |-> IF id = itemId THEN scored ELSE items[id]]

\* the state object s after the body of recordAttempt, before writeLocal
RecordedState(s, itemId, correct, responseMs, contextKey, adaptiveKeys, ts) ==
  [ attempts |-> IF s.attempts + 1 > ATTEMPTS_CAP THEN ATTEMPTS_CAP ELSE s.attempts + 1,
    totals |-> UpdateTotals(s.totals, correct),
    items |-> UpdateItem(s.items, itemId, correct, responseMs, ts),
    adaptive |-> UpdateAdaptive(s.adaptive, adaptiveKeys, contextKey, correct, responseMs, ts) ]

recordAttempt(itemId, mode, correct, responseMs, contextKey, adaptiveKeys) ==
  LET s == getProgress
      written == RecordedState(s, itemId, correct, responseMs, contextKey, adaptiveKeys, now)
  IN /\ localStorage' = [k \in DOMAIN localStorage \cup {KEY} |-> IF k = KEY THEN written ELSE localStorage[k]]
     \* without a stored value s.attempts and s.totals are the array and the
     \* object of DEFAULT_PROGRESS itself, and the pushes and increments land there
     /\ DEFAULT_PROGRESS' =
          IF KEY \in DOMAIN localStorage THEN DEFAULT_PROGRESS
          ELSE [ DEFAULT_PROGRESS EXCEPT !.attempts = written.attempts, !.totals = written.totals ]
     /\ call' = [ op |-> "recordAttempt", itemId |-> itemId, mode |-> mode, correct |-> correct,
                  responseMs |-> responseMs, contextKey |-> contextKey,
                  adaptiveKeys |-> adaptiveKeys, ts |-> now, before |-> s.adaptive ]
     /\ UNCHANGED <<now, tabs>>

----------------------------------------------------------------------------
(* Sampling weight and review queue *)

\* variant: the boost for days not seen is not capped
bucketWeightUncapped(bucket, at) ==
  LET dueBoost == IF bucket.dueAt > 0 /\ bucket.dueAt <= at THEN 18 * (SCALE \div 10) ELSE 0
      weaknessBoost == ((SCALE - bucket.mastery) * 26) \div 10
      missBoost == IF ~bucket.lastOutcomeCorrect THEN 11 * (SCALE \div 10) ELSE 0
      recencyGap == IF at - bucket.lastSeen >= 0 THEN at - bucket.lastSeen ELSE 0
      decayBoost == (recencyGap * 8 * (SCALE \div 100)) \div DAY_MS
  IN SCALE + dueBoost + weaknessBoost + missBoost + decayBoost

\* (1 - mastery) * 2.6, 1.8, 1.1 and min(0.9, days * 0.08) in units of 1/SCALE
bucketWeight(bucket, at) ==
  LET dueBoost == IF bucket.dueAt > 0 /\ bucket.dueAt <= at THEN 18 * (SCALE \div 10) ELSE 0
      weaknessBoost == ((SCALE - bucket.mastery) * 26) \div 10
      missBoost == IF ~bucket.lastOutcomeCorrect THEN 11 * (SCALE \div 10) ELSE 0
      recencyGap == Max(0, at - bucket.lastSeen)
      decayBoost == Min(9 * (SCALE \div 10), (recencyGap * 8 * (SCALE \div 100)) \div DAY_MS)
  IN SCALE + dueBoost + weaknessBoost + missBoost + decayBoost

RECURSIVE SumWeights(_, _)
SumWeights(buckets, at) ==
  IF buckets = <<>> THEN 0
  ELSE bucketWeight(Head(buckets), at) + SumWeights(Tail(buckets), at)

adaptiveWeightForKeyResult(adaptiveKey, contextKey) ==
  LET s == getProgress
      direct == IF contextKey = Undefined \/ contextKey = "" THEN 0
                ELSE IndexOfId(s.adaptive, bucketId(contextKey, adaptiveKey))
      matching == SelectSeq(s.adaptive, LAMBDA b : b.key = adaptiveKey)
  IN IF direct # 0 THEN bucketWeight(s.adaptive[direct], now)
     ELSE IF Len(matching) = 0 THEN SCALE
     ELSE SumWeights(matching, now) \div Len(matching)

\* variant: the prefix list of inferModeFromKey, which also knows function:
supportedKeyWithFunction(key) ==
  \/ startsWith(key, "degree:")
  \/ startsWith(key, "movement:")
  \/ startsWith(key, "quality:")
  \/ startsWith(key, "function:")
  \/ startsWith(key, "progression:")
  \/ startsWith(key, "cadence:")
  \/ startsWith(key, "changed_position:")
  \/ startsWith(key, "meter:")
  \/ startsWith(key, "subdivision:")
  \/ startsWith(key, "syncopation:")
  \/ startsWith(key, "tap:")
  \/ startsWith(key, "phrase:")

supportedKey(key) ==
  \/ startsWith(key, "degree:")
  \/ startsWith(key, "movement:")
  \/ startsWith(key, "quality:")
  \/ startsWith(key, "progression:")
  \/ startsWith(key, "cadence:")
  \/ startsWith(key, "changed_position:")
  \/ startsWith(key, "meter:")
  \/ startsWith(key, "subdivision:")
  \/ startsWith(key, "syncopation:")
  \/ startsWith(key, "tap:")
  \/ startsWith(key, "phrase:")

\* variant: one attempt is enough for the weak queue
isCandidateAfterOneAttempt(bucket, strategy, modeSet, tonalGroup, at) ==
  /\ supportedKey(bucket.key)
  /\ bucket.mode \in modeSet
  /\ (tonalGroup # Undefined /\ tonalGroup # "mixed")
       => LET bucketGroup == tonalGroupFromContext(bucket.context)
          IN ~(bucketGroup # "mixed" /\ bucketGroup # tonalGroup)
  /\ IF strategy = "due"
     THEN bucket.dueAt > 0 /\ bucket.dueAt <= at
     ELSE bucket.attempts >= 1 /\ bucket.mastery * 100 < 72 * SCALE

\* the filter callback of getReviewFocus, lines 379-400
isCandidate(bucket, strategy, modeSet, tonalGroup, at) ==
  /\ supportedKey(bucket.key)
  /\ bucket.mode \in modeSet
  /\ (tonalGroup # Undefined /\ tonalGroup # "mixed")
       => LET bucketGroup == tonalGroupFromContext(bucket.context)
          IN ~(bucketGroup # "mixed" /\ bucketGroup # tonalGroup)
  /\ IF strategy = "due"
     THEN bucket.dueAt > 0 /\ bucket.dueAt <= at
     ELSE bucket.attempts >= 2 /\ bucket.mastery * 100 < 72 * SCALE

\* variant: the due queue is sorted latest first
compareFocusLatestFirst(a, b, strategy, at) ==
  IF strategy = "due" THEN b.dueAt - a.dueAt
  ELSE bucketWeight(b, at) - bucketWeight(a, at)

\* the comparator of getReviewFocus: negative when a sorts before b
compareFocus(a, b, strategy, at) ==
  IF strategy = "due" THEN a.dueAt - b.dueAt
  ELSE bucketWeight(b, at) - bucketWeight(a, at)

\* Array.prototype.sort is stable: x goes after every element it does not precede
RECURSIVE InsertSorted(_, _, _, _)
InsertSorted(sorted, x, strategy, at) ==
  IF sorted = <<>> THEN <<x>>
  ELSE IF compareFocus(x, Head(sorted), strategy, at) < 0 THEN <<x>> \o sorted
  ELSE <<Head(sorted)>> \o InsertSorted(Tail(sorted), x, strategy, at)

RECURSIVE sortFocus(_, _, _)
sortFocus(candidates, strategy, at) ==
  IF candidates = <<>> THEN <<>>
  ELSE InsertSorted(sortFocus(SubSeq(candidates, 1, Len(candidates) - 1), strategy, at),
                    candidates[Len(candidates)], strategy, at)

getReviewFocusResult(strategy, limit, modePool, tonalGroup) ==
  LET s == getProgress
      modeSet == IF modePool.given THEN modePool.modes ELSE TrainingModes
      candidates == SelectSeq(s.adaptive, LAMBDA b : isCandidate(b, strategy, modeSet, tonalGroup, now))
      sorted == sortFocus(candidates, strategy, now)
      kept == SubSeq(sorted, 1, Min(limit, Len(sorted)))
  IN [i \in 1..Len(kept) |-> [ key |-> kept[i].key, context |-> kept[i].context, mode |-> kept[i].mode ]]

adaptiveWeightForKey(adaptiveKey, contextKey) ==
  /\ call' = [ op |-> "adaptiveWeightForKey", adaptiveKey |-> adaptiveKey, contextKey |-> contextKey,
               ts |-> now, result |-> adaptiveWeightForKeyResult(adaptiveKey, contextKey) ]
  /\ UNCHANGED <<localStorage, DEFAULT_PROGRESS, now, tabs>>

getReviewFocus(strategy, limit, modePool, tonalGroup) ==
  /\ call' = [ op |-> "getReviewFocus", strategy |-> strategy, limit |-> limit, modePool |-> modePool,
               tonalGroup |-> tonalGroup, ts |-> now,
               result |-> getReviewFocusResult(strategy, limit, modePool, tonalGroup) ]
  /\ UNCHANGED <<localStorage, DEFAULT_PROGRESS, now, tabs>>

----------------------------------------------------------------------------
(* The clock *)

Tick(days, maxDays) ==
  /\ now + days * DAY_MS <= StartNow + maxDays * DAY_MS
  /\ now' = now + days * DAY_MS
  /\ call' = [ op |-> "tick" ]
  /\ UNCHANGED <<localStorage, DEFAULT_PROGRESS, tabs>>

----------------------------------------------------------------------------
(* Specifications *)

\* the pages that record attempts side by side in the tab specification
Tabs == {1, 2}

Init ==
  /\ localStorage = <<>>
  /\ DEFAULT_PROGRESS =
       [ attempts |-> 0, items |-> <<>>, adaptive |-> <<>>,
         totals |-> [ attempts |-> 0, correct |-> 0, streak |-> 0, bestStreak |-> 0 ] ]
  /\ now = StartNow
  /\ call = [ op |-> "init" ]
  /\ tabs = [t \in Tabs |-> [ pc |-> "idle", DEFAULT_PROGRESS |-> DEFAULT_PROGRESS ]]

Answered == getProgress.totals.attempts
AnsweredWrong == getProgress.totals.attempts - getProgress.totals.correct

Advance == \E days \in TickDays : Tick(days, MaxClockDays)

\* mixed practice within one sitting: every context and key list, few answers
Answer ==
  /\ Answered < MaxAttempts
  /\ \E itemId \in ItemPool, correct \in BOOLEAN, responseMs \in ResponsePool,
        contextKey \in ContextPool, adaptiveKeys \in KeyLists :
       recordAttempt(itemId, "scale_degree", correct, responseMs, contextKey, adaptiveKeys)

Review ==
  \E strategy \in {"due", "weak"}, modePool \in ModePools, tonalGroup \in TonalGroups :
    getReviewFocus(strategy, MaxLimit, modePool, tonalGroup)

Weigh == adaptiveWeightForKey("degree:3", Undefined)

Next == Answer \/ Review \/ Weigh

Spec == Init /\ [][Next]_vars

\* drilling one concept in one context: many answers
DrillAnswer ==
  /\ Answered < MaxDrillAttempts
  /\ \E itemId \in ItemPool, correct \in BOOLEAN, responseMs \in ResponsePool,
        adaptiveKeys \in DrillKeyLists :
       /\ (~correct) => AnsweredWrong < MaxDrillWrong
       /\ recordAttempt(itemId, "scale_degree", correct, responseMs, DrillContext, adaptiveKeys)

DrillWeigh ==
  \E adaptiveKey \in DrillKeys, contextKey \in {DrillContext, Undefined} :
    adaptiveWeightForKey(adaptiveKey, contextKey)

NextDrill == DrillAnswer \/ Advance \/ DrillWeigh

SpecDrill == Init /\ [][NextDrill]_vars

\* reviewing two concepts of one context, one of them drilled until it is scheduled
QueueAnswer ==
  /\ Answered < MaxQueueAttempts
  /\ \E itemId \in ItemPool, correct \in BOOLEAN, responseMs \in ResponsePool,
        adaptiveKeys \in QueueKeyLists :
       /\ (~correct) => Answered < MaxQueueSlipAt
       /\ recordAttempt(itemId, "scale_degree", correct, responseMs, DrillContext, adaptiveKeys)

QueueReview ==
  \E strategy \in {"due", "weak"}, limit \in 1..MaxLimit :
    getReviewFocus(strategy, limit, NoModePool, Undefined)

QueueAdvance == \E days \in QueueTickDays : Tick(days, MaxQueueClockDays)

NextQueue == QueueAnswer \/ QueueAdvance \/ QueueReview

SpecQueue == Init /\ [][NextQueue]_vars

\* drilling a concept the review queue knows next to one it does not
ScheduleAnswer ==
  /\ Answered < MaxScheduleAttempts
  /\ \E itemId \in ItemPool, correct \in BOOLEAN, responseMs \in ResponsePool,
        adaptiveKeys \in ScheduleKeyLists :
       /\ (~correct) => Answered < MaxQueueSlipAt
       /\ recordAttempt(itemId, "scale_degree", correct, responseMs, DrillContext, adaptiveKeys)

\* the due queue asked for as many entries as there are concepts, without a
\* mode pool or a tonal group
ScheduleReview == getReviewFocus("due", MaxScheduleLimit, NoModePool, Undefined)

ScheduleAdvance == \E days \in QueueTickDays : Tick(days, MaxQueueClockDays)

NextSchedule == ScheduleAnswer \/ ScheduleAdvance \/ ScheduleReview

SpecSchedule == Init /\ [][NextSchedule]_vars

----------------------------------------------------------------------------
(* Vocabulary of the properties *)

Buckets == getProgress.adaptive

IdsOf(adaptive) == {adaptive[i].id : i \in 1..Len(adaptive)}

\* the bucket stored under id, or the lazily created one when there is none
BucketIn(adaptive, id) ==
  LET at == IndexOfId(adaptive, id)
  IN IF at = 0
     THEN [ id |-> id, attempts |-> 0, correct |-> 0, wrong |-> 0, mastery |-> 0,
            intervalDays |-> 0, dueAt |-> 0, lastSeen |-> 0 ]
     ELSE adaptive[at]

ContextOf(c) == IF c.contextKey = Undefined THEN "global" ELSE c.contextKey

\* how many entries of the call's adaptiveKeys name the bucket id
Namings(c, id) ==
  Cardinality({i \in 1..Len(c.adaptiveKeys) : bucketId(ContextOf(c), c.adaptiveKeys[i]) = id})

Confident(bucket) == bucket.mastery * 100 >= 82 * SCALE

IntervalSteps == {0, 1, 3, 7, 14, 30}

\* the smallest of 1, 3, 7, 14, 30 above the interval; 30 stays 30
StepAfter(interval) ==
  CASE interval = 0 -> 1
    [] interval = 1 -> 3
    [] interval = 3 -> 7
    [] interval = 7 -> 14
    [] OTHER -> 30

\* the state right after a recordAttempt with outcome `correct`
Recorded(correct) == call.op = "recordAttempt" /\ call.correct = correct

----------------------------------------------------------------------------
(* Scheduling *)

C1_Step ==
  Recorded(TRUE) =>
    \A id \in IdsOf(Buckets) :
      LET before == BucketIn(call.before, id)
          after == BucketIn(Buckets, id)
      IN (Namings(call, id) = 1 /\ Confident(after)) =>
           /\ before.intervalDays \in IntervalSteps
           /\ after.intervalDays = StepAfter(before.intervalDays)
           /\ after.dueAt = call.ts + after.intervalDays * DAY_MS

\* the interval a bucket has after `attempts` answers, all of them correct
RunInterval(attempts) ==
  CASE attempts <= 8 -> 0
    [] attempts = 9 -> 1
    [] attempts = 10 -> 3
    [] attempts = 11 -> 7
    [] attempts = 12 -> 14
    [] OTHER -> 30

C1_Run ==
  \A i \in 1..Len(Buckets) :
    Buckets[i].wrong = 0 => Buckets[i].intervalDays = RunInterval(Buckets[i].attempts)

\* C1: a correct recordAttempt that leaves the bucket's mastery >= 0.82 sets
\* intervalDays to the smallest of 1, 3, 7, 14, 30 above its previous value
\* (30 stays 30) and dueAt to the attempt time plus that many days; a bucket
\* answered correctly from its creation on goes through 0 (eight times), 1, 3,
\* 7, 14, 30, 30, ... without skipping or repeating a step before 30.
C1_IntervalLadder == C1_Step /\ C1_Run

C1_LadderClimbed ==
  /\ Recorded(TRUE)
  /\ \E i \in 1..Len(Buckets) :
       /\ Buckets[i].wrong = 0
       /\ Buckets[i].attempts = 14
       /\ BucketIn(call.before, Buckets[i].id).intervalDays = 30
       /\ Buckets[i].intervalDays = 30
       /\ Buckets[i].dueAt = call.ts + 30 * DAY_MS

\* C2: an incorrect recordAttempt leaves every bucket it names with
\* intervalDays = 0 and dueAt = the time of the attempt, whatever the bucket's
\* interval, due time and mastery were before.
C2_WrongResets ==
  Recorded(FALSE) =>
    \A id \in IdsOf(Buckets) :
      Namings(call, id) >= 1 =>
        /\ BucketIn(Buckets, id).intervalDays = 0
        /\ BucketIn(Buckets, id).dueAt = call.ts

\* a wrong answer to a bucket that had reached the 30-day interval
C2_ResetFromThirty ==
  /\ Recorded(FALSE)
  /\ \E i \in 1..Len(Buckets) :
       /\ Namings(call, Buckets[i].id) = 1
       /\ BucketIn(call.before, Buckets[i].id).intervalDays = 30
       /\ BucketIn(call.before, Buckets[i].id).dueAt > call.ts
       /\ Buckets[i].intervalDays = 0
       /\ Buckets[i].dueAt = call.ts

C3_Step ==
  Recorded(TRUE) =>
    \A id \in IdsOf(Buckets) :
      LET after == BucketIn(Buckets, id)
      IN Namings(call, id) >= 1 =>
           /\ (after.dueAt > call.ts) <=> Confident(after)
           /\ ~Confident(after) => (after.intervalDays = 0 /\ after.dueAt = call.ts)

C3_Scenario ==
  \A i \in 1..Len(Buckets) :
    Buckets[i].wrong = 0 =>
      /\ Buckets[i].attempts = 1 => Buckets[i].mastery = SCALE \div 10
      /\ Buckets[i].attempts = 3 =>
           /\ Buckets[i].mastery > SCALE \div 10
           /\ Buckets[i].intervalDays = 0
           /\ Buckets[i].dueAt = Buckets[i].lastSeen

\* C3: after a correct recordAttempt the bucket's dueAt is later than the
\* attempt time exactly when its recomputed mastery is >= 0.82, and otherwise
\* intervalDays = 0 and dueAt = the attempt time; a bucket with three answers,
\* all correct, is due at its last attempt and has more mastery than after
\* its first answer (0.1).
C3_DueLaterIffConfident == C3_Step /\ C3_Scenario

C3_FirstDueLater ==
  /\ Recorded(TRUE)
  /\ \E i \in 1..Len(Buckets) :
       /\ Buckets[i].wrong = 0 /\ Buckets[i].attempts = 9
       /\ Confident(Buckets[i])
       /\ ~Confident(BucketIn(call.before, Buckets[i].id))
       /\ Buckets[i].dueAt > call.ts

----------------------------------------------------------------------------
(* Mastery and counters *)

Blended10(bucket) ==
  7 * bucket.rollingAccuracy + 3 * ((bucket.correct * SCALE) \div bucket.attempts)

\* C4: every stored bucket has at least one attempt, its mastery is
\* (rollingAccuracy * 0.7 + correct / attempts * 0.3) * min(1, attempts / 10),
\* lies in [0, 1] and does not exceed the blended accuracy.
C4_MasteryFormula ==
  \A i \in 1..Len(Buckets) :
    /\ Buckets[i].attempts >= 1
    /\ Buckets[i].mastery = (Blended10(Buckets[i]) * Min(10, Buckets[i].attempts)) \div 100
    /\ Buckets[i].mastery >= 0 /\ Buckets[i].mastery <= SCALE
    /\ Buckets[i].mastery * 10 <= Blended10(Buckets[i])

C4_PartialMastery ==
  \E i \in 1..Len(Buckets) :
    /\ Buckets[i].wrong >= 1 /\ Buckets[i].correct >= 1 /\ Buckets[i].attempts < 10
    /\ Buckets[i].mastery > 0
    /\ Buckets[i].mastery * 10 < Blended10(Buckets[i])

\* C5: a correct recordAttempt never lowers the mastery of a bucket it names,
\* so along a run of correct answers mastery is non-decreasing.
C5_MasteryMonotone ==
  Recorded(TRUE) =>
    \A id \in IdsOf(Buckets) :
      Namings(call, id) >= 1 =>
        BucketIn(Buckets, id).mastery >= BucketIn(call.before, id).mastery

C5_RunPastTen ==
  /\ Recorded(TRUE)
  /\ \E i \in 1..Len(Buckets) :
       /\ Buckets[i].wrong = 0 /\ Buckets[i].attempts = 11
       /\ Buckets[i].mastery = BucketIn(call.before, Buckets[i].id).mastery

\* C6: no recordAttempt removes a bucket or lowers a counter: each entry of
\* its adaptiveKeys raises the named bucket's attempts by 1 and, according to
\* the outcome, its correct or its wrong by 1 (a key listed twice is counted
\* twice), buckets it does not name keep their counters, and
\* attempts = correct + wrong in every bucket.
C6_Counters ==
  /\ \A i \in 1..Len(Buckets) : Buckets[i].attempts = Buckets[i].correct + Buckets[i].wrong
  /\ call.op = "recordAttempt" =>
       /\ IdsOf(call.before) \subseteq IdsOf(Buckets)
       /\ \A id \in IdsOf(Buckets) :
            LET before == BucketIn(call.before, id)
                after == BucketIn(Buckets, id)
                n == Namings(call, id)
            IN /\ after.attempts = before.attempts + n
               /\ after.correct = before.correct + (IF call.correct THEN n ELSE 0)
               /\ after.wrong = before.wrong + (IF call.correct THEN 0 ELSE n)

C6_CountedTwice ==
  /\ call.op = "recordAttempt"
  /\ call.adaptiveKeys = <<"degree:3", "degree:3">>
  /\ Len(call.before) = 1
  /\ \E i \in 1..Len(Buckets) :
       /\ Namings(call, Buckets[i].id) = 2
       /\ Buckets[i].attempts = BucketIn(call.before, Buckets[i].id).attempts + 2

----------------------------------------------------------------------------
(* Review queue and sampling weight *)

RecognizedPrefixes ==
  { "degree:", "movement:", "quality:", "progression:", "cadence:", "changed_position:",
    "meter:", "subdivision:", "syncopation:", "tap:", "phrase:" }

Recognized(key) == \E prefix \in RecognizedPrefixes : startsWith(key, prefix)

endsWith(s, suffix) ==
  /\ Len(s) >= Len(suffix)
  /\ SubSeq(s, Len(s) - Len(suffix) + 1, Len(s)) = suffix

\* the tonal family a context key of the form mode:hearing:family ends with
ContextFamily(context) ==
  IF endsWith(context, ":major") THEN "major"
  ELSE IF endsWith(context, ":minor") THEN "minor"
  ELSE "mixed"

\* 1 + 1.8 (due) + 2.6 * (1 - mastery) + 1.1 (last answer wrong)
\*   + min(0.9, 0.08 * days since lastSeen), in units of 1/SCALE
WeightFormula(bucket, at) ==
  SCALE
  + (IF 0 < bucket.dueAt /\ bucket.dueAt <= at THEN 18000000 ELSE 0)
  + (26 * (SCALE - bucket.mastery)) \div 10
  + (IF bucket.lastOutcomeCorrect THEN 0 ELSE 11000000)
  + Min(9000000, (800000 * (at - bucket.lastSeen)) \div DAY_MS)

Reviewed(strategy) == call.op = "getReviewFocus" /\ call.strategy = strategy

\* the stored bucket a returned entry stands for
FocusBucket(entry) == BucketIn(Buckets, bucketId(entry.context, entry.key))

PassesFilters(bucket) ==
  /\ Recognized(bucket.key)
  /\ call.modePool.given => bucket.mode \in call.modePool.modes
  /\ call.tonalGroup \in {"major", "minor"} =>
       ContextFamily(bucket.context) \in {call.tonalGroup, "mixed"}

DueBy(bucket, at) == 0 < bucket.dueAt /\ bucket.dueAt <= at

Weak(bucket) == bucket.attempts >= 2 /\ bucket.mastery * 100 < 72 * SCALE

\* the result is a prefix, `limit` long, of the eligible buckets in rank order
IsLeadingPart(result, eligible, limit, Rank(_)) ==
  /\ Len(result) = Min(limit, Cardinality(eligible))
  /\ \A j \in 1..Len(result) : \E i \in eligible : Buckets[i].id = FocusBucket(result[j]).id
  /\ \A j, k \in 1..Len(result) : j < k =>
       /\ FocusBucket(result[j]).id # FocusBucket(result[k]).id
       /\ Rank(FocusBucket(result[j])) <= Rank(FocusBucket(result[k]))
  /\ \A i \in eligible :
       (\A j \in 1..Len(result) : FocusBucket(result[j]).id # Buckets[i].id) =>
         \A j \in 1..Len(result) : Rank(FocusBucket(result[j])) <= Rank(Buckets[i])

\* C7: getReviewFocus with strategy 'due' returns only buckets with
\* 0 < dueAt <= now, in order of non-decreasing dueAt, and they are the first
\* `limit` of that order: no eligible bucket left out is due earlier than a
\* returned one.
C7_DueQueue ==
  Reviewed("due") =>
    LET eligible == {i \in 1..Len(Buckets) : PassesFilters(Buckets[i]) /\ DueBy(Buckets[i], call.ts)}
        DueRank(bucket) == bucket.dueAt
    IN IsLeadingPart(call.result, eligible, call.limit, DueRank)

\* a bucket scheduled for later is held back while an earlier one is returned
C7_NotYetDueHeldBack ==
  /\ Reviewed("due")
  /\ Len(call.result) = 1
  /\ \E i \in 1..Len(Buckets) :
       /\ Recognized(Buckets[i].key)
       /\ Buckets[i].dueAt > call.ts
       /\ Buckets[i].id # FocusBucket(call.result[1]).id

\* C8: getReviewFocus with strategy 'weak' returns only buckets with
\* attempts >= 2 and mastery < 0.72, in order of non-increasing sampling
\* weight at the call time, cut to `limit`.
C8_WeakQueue ==
  Reviewed("weak") =>
    LET eligible == {i \in 1..Len(Buckets) : PassesFilters(Buckets[i]) /\ Weak(Buckets[i])}
        WeakRank(bucket) == 0 - WeightFormula(bucket, call.ts)
    IN IsLeadingPart(call.result, eligible, call.limit, WeakRank)

\* the heavier of two weak buckets is returned first although it is stored second
C8_HeavierFirst ==
  /\ Reviewed("weak")
  /\ Len(call.result) = 2
  /\ WeightFormula(FocusBucket(call.result[1]), call.ts)
       > WeightFormula(FocusBucket(call.result[2]), call.ts)
  /\ Buckets[2].id = FocusBucket(call.result[1]).id

\* C9: every entry getReviewFocus returns has a key with a recognized prefix,
\* a mode of the supplied modePool and, for tonalGroup major or minor, a
\* context of that tonal family or of none; buckets under other keys
\* (function:..., resolution:7->1) are never returned.
C9_OnlyRecognizedKeys ==
  call.op = "getReviewFocus" =>
    \A j \in 1..Len(call.result) :
      /\ Recognized(call.result[j].key)
      /\ call.result[j].mode \in TrainingModes
      /\ call.modePool.given => call.result[j].mode \in call.modePool.modes
      /\ call.tonalGroup \in {"major", "minor"} =>
           ContextFamily(call.result[j].context) \in {call.tonalGroup, "mixed"}
      /\ FocusBucket(call.result[j]).attempts >= 1
      /\ FocusBucket(call.result[j]).mode = call.result[j].mode

\* a due bucket under function: and a bucket of another mode and family are
\* held back while a bucket that passes is returned
C9_StaleKeyHeldBack ==
  /\ Reviewed("due")
  /\ call.modePool.given /\ call.tonalGroup \in {"major", "minor"}
  /\ Len(call.result) >= 1
  /\ \E i \in 1..Len(Buckets) : ~Recognized(Buckets[i].key) /\ DueBy(Buckets[i], call.ts)
  /\ \E i \in 1..Len(Buckets) :
       /\ Recognized(Buckets[i].key)
       /\ Buckets[i].mode \notin call.modePool.modes
       /\ ContextFamily(Buckets[i].context) \notin {call.tonalGroup, "mixed"}

----------------------------------------------------------------------------
(* Weighted concept sampling of the question generator *)

\* pickWeighted, line 41: a candidate's weight is never below 0.01
pickWeight(weight) == Max(SCALE \div 100, weight)

\* the weight callback handed to pickMatchingOrWeighted for a concept key
conceptWeight(adaptiveKey, contextKey) ==
  pickWeight(adaptiveWeightForKeyResult(adaptiveKey, contextKey))

NeverAttempted(adaptiveKey) == \A i \in 1..Len(Buckets) : Buckets[i].key # adaptiveKey

\* known, not due, mastered and last answered correctly
KnownAndSettled(bucket) ==
  Confident(bucket) /\ ~DueBy(bucket, now) /\ bucket.lastOutcomeCorrect

\* C11: in the generator's weighted sampling a never attempted concept weighs
\* strictly more than a concept of the same pool that is known, not due,
\* mastered (>= 0.82) and last answered correctly.
C11_NewOutweighsKnown ==
  \A i \in 1..Len(Buckets) : \A fresh \in DrillKeys :
    (KnownAndSettled(Buckets[i]) /\ NeverAttempted(fresh)) =>
      conceptWeight(fresh, Buckets[i].context) > conceptWeight(Buckets[i].key, Buckets[i].context)

----------------------------------------------------------------------------
(* Music theory tables: theory.ts *)

DEGREE_LABELS == <<"1", "2", "3", "4", "5", "6", "7">>

TonalModes == {"major", "natural_minor", "harmonic_minor", "melodic_minor", "modal"}

DEGREE_SEMITONES_BY_MODE ==
  [ major          |-> <<0, 2, 4, 5, 7, 9, 11>>,
    natural_minor  |-> <<0, 2, 3, 5, 7, 8, 10>>,
    harmonic_minor |-> <<0, 2, 3, 5, 7, 8, 11>>,
    melodic_minor  |-> <<0, 2, 3, 5, 7, 9, 11>>,
    modal          |-> <<0, 2, 4, 5, 7, 9, 10>> ]

\* Array.prototype.indexOf: the first index, counted from 0, or -1
indexOf(arr, x) ==
  IF \E i \in 1..Len(arr) : arr[i] = x
  THEN (CHOOSE i \in 1..Len(arr) : arr[i] = x /\ \A j \in 1..(i - 1) : arr[j] # x) - 1
  ELSE 0 - 1

\* variant: the altered labels are not special-cased
degreeSemitoneDiatonicOnly(degreeLabel, tonalMode) ==
  LET idx == indexOf(DEGREE_LABELS, degreeLabel)
  IN IF idx < 0 THEN 0 ELSE DEGREE_SEMITONES_BY_MODE[tonalMode][idx + 1]

degreeSemitone(degreeLabel, tonalMode) ==
  IF degreeLabel = "b3" THEN 3
  ELSE IF degreeLabel = "#4" THEN 6
  ELSE IF degreeLabel = "b7" THEN 10
  ELSE LET idx == indexOf(DEGREE_LABELS, degreeLabel)
       IN IF idx < 0 THEN 0 ELSE DEGREE_SEMITONES_BY_MODE[tonalMode][idx + 1]

\* the semitone counts of the table and their names
INTERVAL_NAME_BY_SEMITONE ==
  [ n \in {1, 2, 3, 4, 5, 7, 12} |->
      CASE n = 1 -> "m2" [] n = 2 -> "M2" [] n = 3 -> "m3" [] n = 4 -> "M3"
        [] n = 5 -> "P4" [] n = 7 -> "P5" [] n = 12 -> "P8" ]

\* the template literal `${semitones} semitones`
semitonesText(semitones) == ToString(semitones) \o " semitones"

intervalNameFromSemitones(semitones) ==
  IF semitones \in DOMAIN INTERVAL_NAME_BY_SEMITONE
  THEN INTERVAL_NAME_BY_SEMITONE[semitones]
  ELSE semitonesText(semitones)

----------------------------------------------------------------------------
(* Random draws of the generator: generator.ts *)

\* the orders a random-comparator sort is drawn from: as built, and reversed
ShuffleOrders(n) == { [i \in 1..n |-> i], [i \in 1..n |-> n + 1 - i] }

\* arr.sort(() => Math.random() - 0.5): some permutation of arr
shuffled(arr) == { [i \in 1..Len(arr) |-> arr[order[i]]] : order \in ShuffleOrders(Len(arr)) }

\* variant: the filter of line 58 left out, the excluded element can be drawn
sampleDistinctKeepingExclude(arr, count, exclude) ==
  LET pool == arr
      n == Min(Max(count, 0), Len(pool))
      draws == { f \in [1..n -> 1..Len(pool)] : \A i, j \in 1..n : i # j => f[i] # f[j] }
  IN { [i \in 1..n |-> pool[f[i]]] : f \in draws }

\* sampleDistinct: up to `count` elements drawn without replacement from the
\* elements of arr other than `exclude`, in the order drawn
sampleDistinct(arr, count, exclude) ==
  LET pool == SelectSeq(arr, LAMBDA x : x # exclude)
      n == Min(Max(count, 0), Len(pool))
      draws == { f \in [1..n -> 1..Len(pool)] : \A i, j \in 1..n : i # j => f[i] # f[j] }
  IN { [i \in 1..n |-> pool[f[i]]] : f \in draws }

degreePool(level) ==
  IF level = 1 THEN <<"1", "2", "3", "4", "5">>
  ELSE IF level = 2 THEN DEGREE_LABELS
  ELSE DEGREE_LABELS \o <<"b3", "#4", "b7">>

RECURSIVE intervalMovementPool(_)
intervalMovementPool(level) ==
  IF level = 1 THEN
    << <<"1", "2">>, <<"2", "1">>, <<"2", "3">>, <<"3", "2">>,
       <<"3", "4">>, <<"4", "3">>, <<"4", "5">>, <<"5", "4">> >>
  ELSE IF level = 2 THEN
    intervalMovementPool(1) \o
    << <<"1", "3">>, <<"3", "1">>, <<"2", "4">>, <<"4", "2">>, <<"3", "5">>, <<"5", "3">> >>
  ELSE IF level = 3 THEN
    intervalMovementPool(2) \o
    << <<"1", "4">>, <<"4", "1">>, <<"1", "5">>, <<"5", "1">>, <<"2", "5">>, <<"5", "2">> >>
  ELSE intervalMovementPool(3) \o << <<"1", "1">> >>

movementLabel(fromDegree, toDegree) == fromDegree \o "->" \o toDegree

movementDirection(movement, tonalMode) ==
  IF degreeSemitone(movement[2], tonalMode) < degreeSemitone(movement[1], tonalMode)
  THEN "descending" ELSE "ascending"

LabelsOf(movements) == [i \in 1..Len(movements) |-> movementLabel(movements[i][1], movements[i][2])]

\* variant: the two distractor counts swapped, two of the same direction and
\* one of the opposite
buildUnbalancedMovementChoices(correctMovement, pool, tonalMode) ==
  LET correctLabel == movementLabel(correctMovement[1], correctMovement[2])
      correctDirection == movementDirection(correctMovement, tonalMode)
      sameDirectionPool ==
        LabelsOf(SelectSeq(pool, LAMBDA m :
          /\ movementLabel(m[1], m[2]) # correctLabel
          /\ movementDirection(m, tonalMode) = correctDirection))
      oppositeDirectionPool ==
        LabelsOf(SelectSeq(pool, LAMBDA m : movementDirection(m, tonalMode) # correctDirection))
  IN UNION { shuffled(<<correctLabel>> \o same \o opposite) :
             same \in sampleDistinct(sameDirectionPool, 2, correctLabel),
             opposite \in sampleDistinct(oppositeDirectionPool, 1, correctLabel) }

\* the answer lists buildBalancedMovementChoices can return
buildBalancedMovementChoices(correctMovement, pool, tonalMode) ==
  LET correctLabel == movementLabel(correctMovement[1], correctMovement[2])
      correctDirection == movementDirection(correctMovement, tonalMode)
      sameDirectionPool ==
        LabelsOf(SelectSeq(pool, LAMBDA m :
          /\ movementLabel(m[1], m[2]) # correctLabel
          /\ movementDirection(m, tonalMode) = correctDirection))
      oppositeDirectionPool ==
        LabelsOf(SelectSeq(pool, LAMBDA m : movementDirection(m, tonalMode) # correctDirection))
  IN UNION { shuffled(<<correctLabel>> \o same \o opposite) :
             same \in sampleDistinct(sameDirectionPool, 1, correctLabel),
             opposite \in sampleDistinct(oppositeDirectionPool, 2, correctLabel) }

----------------------------------------------------------------------------
(* Timing patterns and tap assessment: timing.ts *)

\* beats are counted in units of 1/BEAT of a beat, milliseconds in units of 1/MS
BEAT == 300
MS == 1000

Null == <<>>
Some(v) == <<v>>

Abs(x) == IF x < 0 THEN 0 - x ELSE x

\* Math.round of the fraction n / d, for n >= 0 and d > 0
Round(n, d) == (2 * n + d) \div (2 * d)

stepBeats(subdivision) ==
  IF subdivision = "quarter" THEN BEAT
  ELSE IF subdivision = "eighth" THEN BEAT \div 2
  ELSE IF subdivision = "triplet" THEN BEAT \div 3
  ELSE BEAT \div 4

beatsPerBar(meter) ==
  IF meter = "2/4" THEN 2 ELSE IF meter = "3/4" THEN 3 ELSE 4

snapBeat(value, step) == Round(value, step) * step

slotsOf(meter, subdivision, bars) ==
  Max(1, Round(beatsPerBar(meter) * bars * BEAT, stepBeats(subdivision)))

minHitsOf(slots) == Max(4, Round(slots * 35, 100))

maxHitsOf(slots) == Max(minHitsOf(slots) + 1, Round(slots * 60, 100))

isStrongBeat(beat) == beat % BEAT = 0

\* a set of slot numbers as the sorted list of their beats
RECURSIVE SortedBeats(_, _)
SortedBeats(slotSet, step) ==
  IF slotSet = {} THEN <<>>
  ELSE LET least == CHOOSE s \in slotSet : \A t \in slotSet : s <= t
       IN <<snapBeat(least * step, step)>> \o SortedBeats(slotSet \ {least}, step)

\* the first n slots after slot 0 in the given order of preference
RECURSIVE TakeSlots(_, _)
TakeSlots(ordered, n) ==
  IF n <= 0 \/ ordered = <<>> THEN {}
  ELSE {Head(ordered)} \cup TakeSlots(Tail(ordered), n - 1)

\* the slot sets the random loop of generateTargetBeats is drawn from: slot 0
\* with the earliest slots, with the latest slots, or with the strong beats first
SlotDraws(slots, step, targetCount) ==
  LET later == [i \in 1..(slots - 1) |-> i]
      latest == [i \in 1..(slots - 1) |-> slots - i]
      strong == SelectSeq(later, LAMBDA s : isStrongBeat(s * step))
      weak == SelectSeq(later, LAMBDA s : ~isStrongBeat(s * step))
  IN { {0} \cup TakeSlots(order, targetCount - 1) : order \in {later, latest, strong \o weak} }

\* the beat lists generateTargetBeats can return for a drawn targetCount; the
\* loop of lines 73-79 ends only when the set holds targetCount slots, so there
\* is none when targetCount exceeds the number of slots
generateTargetBeats(meter, subdivision, bars, includeSyncopation, targetCount) ==
  LET step == stepBeats(subdivision)
      slots == slotsOf(meter, subdivision, bars)
  IN IF targetCount > slots THEN {}
     ELSE { SortedBeats(slotSet, step) : slotSet \in SlotDraws(slots, step, targetCount) }

meterPool(level) == IF level = 1 THEN {"2/4", "4/4"} ELSE {"2/4", "3/4", "4/4"}

subdivisionPool(level) ==
  IF level = 1 THEN {"quarter", "eighth"}
  ELSE IF level = 2 THEN {"eighth", "triplet"}
  ELSE {"eighth", "triplet", "sixteenth"}

questionKindPool(level) ==
  IF level = 1 THEN {"echo_pattern", "meter_pick"}
  ELSE IF level = 2 THEN {"echo_pattern", "meter_pick", "subdivision_pick"}
  ELSE {"echo_pattern", "meter_pick", "subdivision_pick", "offbeat_pick"}

TimingLevels == {1, 2, 3}

\* what makeTimingPattern can do at a level: return a pattern, or never return
makeTimingPattern(level) ==
  UNION { LET bars == IF level >= 2 THEN 2 ELSE 1
              slots == slotsOf(meter, subdivision, bars)
          IN UNION { LET lists == generateTargetBeats(meter, subdivision, bars, level >= 2, targetCount)
                         drawn == [ meter |-> meter, subdivision |-> subdivision, bars |-> bars,
                                    questionKind |-> questionKind, slots |-> slots,
                                    targetCount |-> targetCount ]
                     IN IF lists = {} THEN { [ returned |-> FALSE, drawn |-> drawn ] }
                        ELSE { [ returned |-> TRUE, drawn |-> drawn,
                                 meter |-> meter, subdivision |-> subdivision, bars |-> bars,
                                 questionKind |-> questionKind, targetBeats |-> targetBeats,
                                 patternLengthBeats |-> beatsPerBar(meter) * bars * BEAT,
                                 quantizeStepBeats |-> stepBeats(subdivision) ] : targetBeats \in lists }
                   : targetCount \in minHitsOf(slots)..maxHitsOf(slots) }
        : meter \in meterPool(level), subdivision \in subdivisionPool(level),
          questionKind \in questionKindPool(level) }

\* the index of the unused tap nearest to targetBeat (the first of equals), or 0
nearestUnused(taps, used, targetBeat) ==
  LET free == {i \in 1..Len(taps) : i \notin used}
  IN IF free = {} THEN 0
     ELSE CHOOSE i \in free :
            \A j \in free :
              \/ Abs(taps[i] - targetBeat) < Abs(taps[j] - targetBeat)
              \/ (Abs(taps[i] - targetBeat) = Abs(taps[j] - targetBeat) /\ i <= j)

\* ((tapped - target) * 60000) / bpm, in units of 1/MS of a millisecond
deltaMsOf(tappedBeat, targetBeat, bpm) ==
  ((tappedBeat - targetBeat) * ((60000 * MS) \div BEAT)) \div bpm

\* the loop of the variant in which a tap can be matched again
RECURSIVE assessReusingTaps(_, _, _, _, _, _)
assessReusingTaps(taps, target, bpm, tolerance, k, acc) ==
  IF k > Len(target) THEN acc
  ELSE LET bestIndex == nearestUnused(taps, {}, target[k])
           hit == bestIndex > 0 /\ Abs(taps[bestIndex] - target[k]) <= tolerance
       IN assessReusingTaps(taps, target, bpm, tolerance, k + 1,
            [ used |-> acc.used,
              matched |-> IF hit THEN acc.matched + 1 ELSE acc.matched,
              errors |-> Append(acc.errors,
                IF hit THEN [ targetBeat |-> target[k], tappedBeat |-> Some(taps[bestIndex]),
                              deltaMs |-> Some(deltaMsOf(taps[bestIndex], target[k], bpm)) ]
                ELSE [ targetBeat |-> target[k], tappedBeat |-> Null, deltaMs |-> Null ]) ])

\* the loop of assessTapPattern from target k on
RECURSIVE assessFrom(_, _, _, _, _, _)
assessFrom(taps, target, bpm, tolerance, k, acc) ==
  IF k > Len(target) THEN acc
  ELSE LET bestIndex == nearestUnused(taps, acc.used, target[k])
           hit == bestIndex > 0 /\ Abs(taps[bestIndex] - target[k]) <= tolerance
       IN assessFrom(taps, target, bpm, tolerance, k + 1,
            [ used |-> IF hit THEN acc.used \cup {bestIndex} ELSE acc.used,
              matched |-> IF hit THEN acc.matched + 1 ELSE acc.matched,
              errors |-> Append(acc.errors,
                IF hit THEN [ targetBeat |-> target[k], tappedBeat |-> Some(taps[bestIndex]),
                              deltaMs |-> Some(deltaMsOf(taps[bestIndex], target[k], bpm)) ]
                ELSE [ targetBeat |-> target[k], tappedBeat |-> Null, deltaMs |-> Null ]) ])

DEFAULT_TOLERANCE == (22 * BEAT) \div 100

\* variant: the set of used taps is not consulted
assessTapPatternReusingTaps(taps, target, bpm, toleranceBeats) ==
  LET tolerance == IF toleranceBeats = Null THEN DEFAULT_TOLERANCE ELSE toleranceBeats[1]
      done == assessReusingTaps(taps, target, bpm, tolerance, 1, [ used |-> {}, matched |-> 0, errors |-> <<>> ])
  IN [ matched |-> done.matched, expected |-> Len(target),
       accuracy |-> IF Len(target) > 0 THEN (done.matched * SCALE) \div Len(target) ELSE 0,
       errors |-> done.errors ]

assessTapPattern(taps, target, bpm, toleranceBeats) ==
  LET tolerance == IF toleranceBeats = Null THEN DEFAULT_TOLERANCE ELSE toleranceBeats[1]
      done == assessFrom(taps, target, bpm, tolerance, 1, [ used |-> {}, matched |-> 0, errors |-> <<>> ])
  IN [ matched |-> done.matched, expected |-> Len(target),
       accuracy |-> IF Len(target) > 0 THEN (done.matched * SCALE) \div Len(target) ELSE 0,
       errors |-> done.errors ]

----------------------------------------------------------------------------
(* Calls of the pure functions *)

MaxTaps == 3            \* taps handed to assessTapPattern

DegreeLabelPool ==
  {"1", "2", "3", "4", "5", "6", "7", "b3", "#4", "b7", "8", "0", "b2", "#5", ""}

IntervalLevels == {1, 2, 3, 4}

\* 0.05, 0.1333, 1.1, 2.4 and 3.9 beats
TapBeatPool == {15, 40, 330, 720, 1170}

TapLists == UNION { [1..n -> TapBeatPool] : n \in 0..MaxTaps }

\* [0, 1, 2.5, 3], [0, 0.5, 1], [0, 0.25] and no target
TargetLists == { <<0, 300, 750, 900>>, <<0, 150, 300>>, <<0, 75>>, <<>> }

BpmPool == {90, 120}

\* semitone counts below, within and above the octave
SemitonePool == (0 - 2)..14

TolerancePool == { Null, Some(66), Some(30) }

Quiet == UNCHANGED <<localStorage, DEFAULT_PROGRESS, now, tabs>>

\* a pure function is called once, on inputs drawn at the call
Idle == call.op = "init"

DegreeSemitone ==
  /\ Idle
  /\ \E degreeLabel \in DegreeLabelPool, tonalMode \in TonalModes :
       /\ call' = [ op |-> "degreeSemitone", degreeLabel |-> degreeLabel, tonalMode |-> tonalMode,
                    result |-> degreeSemitone(degreeLabel, tonalMode) ]
       /\ Quiet

BalancedChoices ==
  /\ Idle
  /\ \E level \in IntervalLevels, tonalMode \in TonalModes :
       LET pool == intervalMovementPool(level)
       IN \E k \in 1..Len(pool) :
            \E choices \in buildBalancedMovementChoices(pool[k], pool, tonalMode) :
              /\ call' = [ op |-> "buildBalancedMovementChoices", level |-> level,
                           tonalMode |-> tonalMode, correctMovement |-> pool[k], result |-> choices ]
              /\ Quiet

NextInterval == BalancedChoices

SpecInterval == Init /\ [][NextInterval]_vars

AssessTaps ==
  /\ Idle
  /\ \E taps \in TapLists, target \in TargetLists, bpm \in BpmPool, toleranceBeats \in TolerancePool :
       /\ call' = [ op |-> "assessTapPattern", taps |-> taps, target |-> target, bpm |-> bpm,
                    toleranceBeats |-> toleranceBeats,
                    result |-> assessTapPattern(taps, target, bpm, toleranceBeats) ]
       /\ Quiet

IntervalName ==
  /\ Idle
  /\ \E semitones \in SemitonePool :
       /\ call' = [ op |-> "intervalNameFromSemitones", semitones |-> semitones,
                    result |-> intervalNameFromSemitones(semitones) ]
       /\ Quiet

TimingPattern ==
  /\ Idle
  /\ \E level \in TimingLevels :
       \E pattern \in makeTimingPattern(level) :
         /\ call' = [ op |-> "makeTimingPattern", level |-> level, result |-> pattern ]
         /\ Quiet

NextTheory == DegreeSemitone \/ AssessTaps \/ TimingPattern \/ IntervalName

SpecTheory == Init /\ [][NextTheory]_vars

----------------------------------------------------------------------------
(* Properties of the pure functions *)

RangeOf(seq) == {seq[i] : i \in 1..Len(seq)}

\* C16: for every interval level, tonal mode and correct movement of the pool
\* the answer choices of an interval question are 4 pairwise distinct movement
\* labels: the correct one, exactly 1 distractor of the same direction and
\* exactly 2 of the opposite direction.
C16_BalancedChoices ==
  call.op = "buildBalancedMovementChoices" =>
    LET choices == call.result
        pool == RangeOf(intervalMovementPool(call.level))
        \* the movement a label "x->y" of one-character degrees names
        MovementOf(label) == << SubSeq(label, 1, 1), SubSeq(label, 4, 4) >>
        goes == [i \in 1..Len(choices) |-> movementDirection(MovementOf(choices[i]), call.tonalMode)]
        correctGoes == movementDirection(call.correctMovement, call.tonalMode)
        distractors == {i \in 1..Len(choices) : MovementOf(choices[i]) # call.correctMovement}
    IN /\ Len(choices) = 4
       /\ \A i, j \in 1..4 : i # j => choices[i] # choices[j]
       /\ \A i \in 1..4 : Len(choices[i]) = 4 /\ MovementOf(choices[i]) \in pool
       /\ Cardinality(distractors) = 3
       /\ Cardinality({i \in distractors : goes[i] = correctGoes}) = 1
       /\ Cardinality({i \in distractors : goes[i] # correctGoes}) = 2

\* the octave leap 1->1 of level 4 counts as ascending and gets its four choices
C16_OctaveLeapBalanced ==
  /\ call.op = "buildBalancedMovementChoices"
  /\ call.level = 4 /\ call.correctMovement = <<"1", "1">>
  /\ Len(call.result) = 4
  /\ "1->1" \in RangeOf(call.result)

\* C18: for every timing level, meter and subdivision the targetBeats that
\* makeTimingPattern returns contain beat 0 and hold at least 35% and at most
\* 60% of the grid slots (bars * beats per bar / subdivision step).
C18_OnsetShare ==
  (call.op = "makeTimingPattern" /\ call.result.returned) =>
    LET pattern == call.result
        slots == pattern.patternLengthBeats \div pattern.quantizeStepBeats
        hits == Len(pattern.targetBeats)
    IN /\ 0 \in RangeOf(pattern.targetBeats)
       /\ 100 * hits >= 35 * slots
       /\ 100 * hits <= 60 * slots

\* C19: assessTapPattern visits the targets in order and matches a target
\* exactly when its nearest unused tap lies within the tolerance; a tap is
\* matched to at most one target; errors has one entry per target, with
\* deltaMs = beat difference * 60000 / bpm for a match and null otherwise;
\* matched counts the matched entries and is at most min(taps, targets). For
\* targets [0, 1, 2.5, 3], taps [0.05, 1.1, 3.9], 90 BPM and tolerance 0.22
\* exactly targets 0 and 1 are matched.
C19_TapAssessment ==
  call.op = "assessTapPattern" =>
    LET taps == call.taps
        target == call.target
        errors == call.result.errors
        tolerance == IF call.toleranceBeats = Null THEN (22 * BEAT) \div 100 ELSE call.toleranceBeats[1]
        IsMatched(k) == errors[k].tappedBeat # Null
        Copies(v) == Cardinality({i \in 1..Len(taps) : taps[i] = v})
        UsedBefore(k, v) == Cardinality({j \in 1..(k - 1) : errors[j].tappedBeat = Some(v)})
        FreeAt(k) == {v \in RangeOf(taps) : Copies(v) > UsedBefore(k, v)}
        Far(v, k) == Abs(v - target[k])
    IN /\ Len(errors) = Len(target)
       /\ call.result.expected = Len(target)
       /\ \A k \in 1..Len(target) :
            /\ errors[k].targetBeat = target[k]
            /\ IsMatched(k) <=> \E v \in FreeAt(k) : Far(v, k) <= tolerance
            /\ IsMatched(k) =>
                 LET v == errors[k].tappedBeat[1]
                 IN /\ v \in FreeAt(k)
                    /\ \A w \in FreeAt(k) : Far(v, k) <= Far(w, k)
                    /\ errors[k].deltaMs = Some(((v - target[k]) * ((60000 * MS) \div BEAT)) \div call.bpm)
            /\ ~IsMatched(k) => errors[k].deltaMs = Null
       /\ \A v \in RangeOf(taps) : UsedBefore(Len(target) + 1, v) <= Copies(v)
       /\ call.result.matched = Cardinality({k \in 1..Len(target) : IsMatched(k)})
       /\ call.result.matched <= Min(Len(taps), Len(target))
       /\ (taps = <<15, 330, 1170>> /\ target = <<0, 300, 750, 900>> /\ call.bpm = 90
             /\ tolerance = 66) =>
            /\ call.result.matched = 2
            /\ IsMatched(1) /\ IsMatched(2) /\ ~IsMatched(3) /\ ~IsMatched(4)

\* the scenario: two of four targets matched, 0.05 beat late is 33.333 ms at 90 BPM
C19_ScenarioTwoMatches ==
  /\ call.op = "assessTapPattern"
  /\ call.taps = <<15, 330, 1170>> /\ call.target = <<0, 300, 750, 900>>
  /\ call.bpm = 90 /\ call.toleranceBeats = Some(66)
  /\ call.result.matched = 2
  /\ call.result.errors[1].deltaMs = Some(33333)
  /\ call.result.errors[3].tappedBeat = Null

\* C20: in every tonal mode degreeSemitone gives 0..11 for the diatonic labels
\* 1..7, 0 for degree 1 and strictly more for each next degree; 3 for b3, 6 for
\* #4 and 10 for b7 whatever the mode; 0 for a label of no table.
C20_DegreeSemitone ==
  call.op = "degreeSemitone" =>
    LET diatonic == RangeOf(DEGREE_LABELS)
    IN /\ call.degreeLabel \in diatonic => call.result \in 0..11
       /\ call.degreeLabel = "1" => call.result = 0
       /\ \A i \in 1..6 :
            degreeSemitone(DEGREE_LABELS[i], call.tonalMode)
              < degreeSemitone(DEGREE_LABELS[i + 1], call.tonalMode)
       /\ call.degreeLabel = "b3" => call.result = 3
       /\ call.degreeLabel = "#4" => call.result = 6
       /\ call.degreeLabel = "b7" => call.result = 10
       /\ call.degreeLabel \notin diatonic \cup {"b3", "#4", "b7"} => call.result = 0

\* b7 is 10 in major, where the diatonic 7 is 11
C20_FlatSevenInMajor ==
  /\ call.op = "degreeSemitone"
  /\ call.degreeLabel = "b7" /\ call.tonalMode = "major"
  /\ call.result = 10
  /\ degreeSemitone("7", "major") = 11

----------------------------------------------------------------------------
(* The question generator: generator.ts, progression.ts *)

NOTE_NAMES == <<"C", "Db", "D", "Eb", "E", "F", "Gb", "G", "Ab", "A", "Bb", "B">>

NoTonicPool == [given |-> FALSE]

\* randomNoteName: any note of the source pool other than `exclude`; undefined
\* when no other note is left
randomNoteName(exclude, sourcePool) ==
  LET source == IF sourcePool.given THEN sourcePool.notes ELSE NOTE_NAMES
      pool == IF exclude = Undefined THEN source ELSE SelectSeq(source, LAMBDA n : n # exclude)
  IN IF pool = <<>> THEN {Undefined} ELSE {pool[i] : i \in 1..Len(pool)}

\* variant: the rotation also applies to the first question
tonicsForFromFirstQuestion(config, questionIndex, previousTonic) ==
  LET shouldShiftTonic ==
        /\ config.randomTonicEvery > 0
        /\ questionIndex % config.randomTonicEvery = 0
  IN IF shouldShiftTonic THEN randomNoteName(previousTonic, config.tonicPool) ELSE {previousTonic}

\* the tonics a question can get, lines 357-361
tonicsFor(config, questionIndex, previousTonic) ==
  LET shouldShiftTonic ==
        /\ config.randomTonicEvery > 0
        /\ questionIndex > 0
        /\ questionIndex % config.randomTonicEvery = 0
  IN IF shouldShiftTonic THEN randomNoteName(previousTonic, config.tonicPool) ELSE {previousTonic}

\* pickWeighted draws any item, every weight being at least 0.01; on an empty
\* list it reads `.item` of undefined and throws, which is the empty set here
pickWeighted(items) == {items[i] : i \in 1..Len(items)}

\* the first item that matches, else a weighted draw; matches[i] tells whether
\* items[i] matches
pickMatchingOrWeighted(items, matches) ==
  IF \E i \in 1..Len(items) : matches[i]
  THEN { items[CHOOSE i \in 1..Len(items) : matches[i] /\ \A j \in 1..(i - 1) : ~matches[j]] }
  ELSE pickWeighted(items)

\* modeByMix: a draw from the mode pool, or from the three default modes
modeByMix(pool) ==
  pickWeighted(IF Len(pool) > 0 THEN pool
               ELSE <<"scale_degree", "functional_interval", "functional_harmony">>)

\* the rest of forcedAdaptiveKey after a prefix, or null
forcedPart(forcedAdaptiveKey, prefix) ==
  IF forcedAdaptiveKey # Undefined /\ startsWith(forcedAdaptiveKey, prefix)
  THEN Some(SubSeq(forcedAdaptiveKey, Len(prefix) + 1, Len(forcedAdaptiveKey)))
  ELSE Null

\* the outcomes of Math.random() < chance, chance in percent
chanceDraws(chance) == {b \in BOOLEAN : IF b THEN chance > 0 ELSE chance < 100}

question(mode, kind, tonic, answerChoices, correctAnswer, enforceSinging, adaptiveFocusKey) ==
  [ status |-> "returned", mode |-> mode, kind |-> kind, tonic |-> tonic,
    answerChoices |-> answerChoices, correctAnswer |-> correctAnswer,
    enforceSinging |-> enforceSinging, revealAfterSinging |-> enforceSinging,
    adaptiveFocusKey |-> adaptiveFocusKey ]

\* the call ends in an exception
Threw == [ status |-> "threw" ]

\* the call does not come back
Running == [ status |-> "running" ]

\* what the first weighted draw of a call gives: the item drawn, or null when
\* the pool is empty and pickWeighted throws
picked(items) == IF items = {} THEN {Null} ELSE {Some(item) : item \in items}

PROGRESSION_TEMPLATES ==
  << [ romanPath |-> <<"I", "V">>, cadenceType |-> "half", stage |-> 1, tonalFamily |-> "major" ],
     [ romanPath |-> <<"I", "IV">>, cadenceType |-> "half", stage |-> 1, tonalFamily |-> "major" ],
     [ romanPath |-> <<"I", "IV", "V">>, cadenceType |-> "half", stage |-> 2, tonalFamily |-> "major" ],
     [ romanPath |-> <<"ii", "V", "I">>, cadenceType |-> "authentic", stage |-> 2, tonalFamily |-> "major" ],
     [ romanPath |-> <<"I", "IV", "I">>, cadenceType |-> "plagal", stage |-> 2, tonalFamily |-> "major" ],
     [ romanPath |-> <<"I", "ii", "V", "I">>, cadenceType |-> "authentic", stage |-> 3, tonalFamily |-> "major" ],
     [ romanPath |-> <<"I", "IV", "V", "I">>, cadenceType |-> "authentic", stage |-> 3, tonalFamily |-> "major" ],
     [ romanPath |-> <<"i", "iv", "V">>, cadenceType |-> "half", stage |-> 2, tonalFamily |-> "minor" ],
     [ romanPath |-> <<"i", "iv", "i">>, cadenceType |-> "plagal", stage |-> 2, tonalFamily |-> "minor" ],
     [ romanPath |-> <<"i", "iv", "V", "i">>, cadenceType |-> "authentic", stage |-> 3, tonalFamily |-> "minor" ] >>

tonalFamily(tonalMode) == IF includes(tonalMode, "minor") THEN "minor" ELSE "major"

maxStageForLevel(level) == IF level = 1 THEN 1 ELSE 3

progressionPool(tonalMode, level) ==
  SelectSeq(PROGRESSION_TEMPLATES, LAMBDA template :
    template.tonalFamily = tonalFamily(tonalMode) /\ template.stage <= maxStageForLevel(level))

triadFromRoot(rootMidi, quality) ==
  IF quality = "major" THEN <<rootMidi, rootMidi + 4, rootMidi + 7>>
  ELSE IF quality = "minor" THEN <<rootMidi, rootMidi + 3, rootMidi + 7>>
  ELSE <<rootMidi, rootMidi + 3, rootMidi + 6>>

\* roman.replace(/[0-9]/g, "")
RECURSIVE normalizedRoman(_)
normalizedRoman(roman) ==
  IF roman = "" THEN ""
  ELSE LET first == SubSeq(roman, 1, 1)
       IN (IF first \in {"0", "1", "2", "3", "4", "5", "6", "7", "8", "9"} THEN "" ELSE first)
            \o normalizedRoman(SubSeq(roman, 2, Len(roman)))

\* the table romanSpec looks the numeral up in: lines 53-62 and 66-74
romanTable(mode) ==
  IF mode = "major"
  THEN [ I   |-> [ rootOffset |-> 0, quality |-> "major" ],
         ii  |-> [ rootOffset |-> 2, quality |-> "minor" ],
         iii |-> [ rootOffset |-> 4, quality |-> "minor" ],
         IV  |-> [ rootOffset |-> 5, quality |-> "major" ],
         V   |-> [ rootOffset |-> 7, quality |-> "major" ],
         vi  |-> [ rootOffset |-> 9, quality |-> "minor" ],
         vii |-> [ rootOffset |-> 11, quality |-> "diminished" ] ]
  ELSE [ i   |-> [ rootOffset |-> 0, quality |-> "minor" ],
         ii  |-> [ rootOffset |-> 2, quality |-> "diminished" ],
         III |-> [ rootOffset |-> 3, quality |-> "major" ],
         iv  |-> [ rootOffset |-> 5, quality |-> "minor" ],
         V   |-> [ rootOffset |-> 7, quality |-> "major" ],
         VI  |-> [ rootOffset |-> 8, quality |-> "major" ],
         VII |-> [ rootOffset |-> 10, quality |-> "major" ] ]

\* table[normalized] ?? table.I, and table.i outside major
romanSpec(roman, mode) ==
  LET normalized == normalizedRoman(roman)
      table == romanTable(mode)
  IN IF normalized \in DOMAIN table THEN table[normalized]
     ELSE IF mode = "major" THEN table["I"] ELSE table["i"]

progressionChordMidis(tonicMidi, tonalMode, romanPath) ==
  [k \in 1..Len(romanPath) |->
    LET spec == romanSpec(romanPath[k], tonalMode)
    IN triadFromRoot(tonicMidi + spec.rootOffset, spec.quality)]

\* Array.prototype.join
RECURSIVE join(_, _)
join(parts, separator) ==
  IF parts = <<>> THEN ""
  ELSE IF Len(parts) = 1 THEN parts[1]
  ELSE parts[1] \o separator \o join(Tail(parts), separator)

progressionToLabel(romanPath) == join(romanPath, " - ")

cadenceLabel(cadence) ==
  IF cadence = "authentic" THEN "Authentic"
  ELSE IF cadence = "plagal" THEN "Plagal"
  ELSE "Half"

stageChoiceCount(stage) == IF stage = 1 THEN 2 ELSE IF stage = 2 THEN 3 ELSE 4

harmonyQualitySet(level) ==
  IF level = 1 THEN <<"major", "minor", "diminished", "augmented">>
  ELSE <<"major", "minor", "diminished", "augmented",
         "dominant7", "major7", "minor7", "half_diminished7">>

qualityLabel(quality) ==
  CASE quality = "major" -> "Major"
    [] quality = "minor" -> "Minor"
    [] quality = "diminished" -> "Diminished"
    [] quality = "augmented" -> "Augmented"
    [] quality = "dominant7" -> "Dominant 7"
    [] quality = "major7" -> "Major 7"
    [] quality = "minor7" -> "Minor 7"
    [] quality = "half_diminished7" -> "Half-diminished 7"
    [] OTHER -> quality

\* the kinds progressionQuestionKindForStage can draw
progressionQuestionKindForStage(stage) ==
  IF stage = 3 THEN {"roman_path", "cadence_type", "changed_chord"}
  ELSE {"roman_path", "cadence_type"}

cadenceChoices(cadenceType, stage) ==
  LET pool == <<"Authentic", "Plagal", "Half">>
      correct == cadenceLabel(cadenceType)
      count == IF stage = 1 THEN 2 ELSE 3
  IN UNION { shuffled(<<correct>> \o others) : others \in sampleDistinct(pool, count - 1, correct) }

changedChordPositionChoices(length, index, stage) ==
  LET labels == [i \in 1..length |-> "Chord " \o ToString(i)]
      correct == labels[index + 1]
      choiceCount == Min(stageChoiceCount(stage), Len(labels))
  IN UNION { shuffled(<<correct>> \o others) : others \in sampleDistinct(labels, choiceCount - 1, correct) }

\* lines 365-513, after `correct` is drawn
scaleDegreeQuestions(input, tonic, correct) ==
  LET config == input.config
      pool == degreePool(config.degreeLevel)
      hasSeven == \E i \in 1..Len(pool) : pool[i] = "7"
      predictive == {b \in chanceDraws(config.predictiveResolutionChance) : b => hasSeven}
      asked == UNION { shuffled(<<correct>> \o others) : others \in sampleDistinct(pool, 3, correct) }
  IN (IF TRUE \in predictive
      THEN { question("scale_degree", "predictive_resolution", tonic, <<"1", "6", "5", "2">>, "1",
                      input.shouldForceSinging, "resolution:7->1") }
      ELSE {})
     \cup
     (IF FALSE \in predictive
      THEN { question("scale_degree", "degree", tonic, answerChoices, correct,
                      input.shouldForceSinging, "degree:" \o correct) : answerChoices \in asked }
      ELSE {})

\* lines 515-585, after `movement` is drawn
intervalQuestions(input, tonic, movement) ==
  LET config == input.config
      correct == movement[1] \o "->" \o movement[2]
  IN { question("functional_interval", "movement", tonic, choices, correct,
                input.shouldForceSinging, "movement:" \o correct)
       : choices \in buildBalancedMovementChoices(movement, intervalMovementPool(config.intervalLevel),
                                                  config.tonalMode) }

\* a question with its feedback.title and its metadata.timing.targetBeats
withPattern(q, title, targetBeats) ==
  [f \in DOMAIN q \cup {"feedbackTitle", "targetBeats"} |->
    IF f = "feedbackTitle" THEN title ELSE IF f = "targetBeats" THEN targetBeats ELSE q[f]]

\* lines 587-780, after makeTimingPattern
timingQuestions(input, tonic, pattern) ==
  LET forcedSync == forcedPart(input.forcedAdaptiveKey, "syncopation:")
  IN IF ~pattern.returned THEN {Running}
     ELSE LET syncopated == \E i \in 1..Len(pattern.targetBeats) : ~isStrongBeat(pattern.targetBeats[i])
          IN IF pattern.questionKind = "meter_pick" THEN
               { question("timing_grid", "meter_pick", tonic, choices, pattern.meter, FALSE,
                          "meter:" \o pattern.meter)
                 : choices \in UNION { shuffled(<<pattern.meter>> \o others)
                     : others \in sampleDistinct(<<"2/4", "3/4", "4/4">>, 3, pattern.meter) } }
             ELSE IF pattern.questionKind = "subdivision_pick" THEN
               { question("timing_grid", "subdivision_pick", tonic, choices, pattern.subdivision, FALSE,
                          "subdivision:" \o pattern.subdivision)
                 : choices \in UNION { shuffled(<<pattern.subdivision>> \o others)
                     : others \in sampleDistinct(<<"quarter", "eighth", "triplet", "sixteenth">>, 3,
                                                 pattern.subdivision) } }
             ELSE IF pattern.questionKind = "offbeat_pick" THEN
               { withPattern(
                   question("timing_grid", "offbeat_pick", tonic, <<"syncopated", "on beat only">>,
                            IF forcedSync = Some("yes") THEN "syncopated"
                            ELSE IF forcedSync = Some("no") THEN "on beat only"
                            ELSE IF syncopated THEN "syncopated" ELSE "on beat only",
                            FALSE,
                            "syncopation:" \o (IF syncopated THEN "yes" ELSE "no")),
                   IF syncopated THEN "syncopated" ELSE "on beat only",
                   pattern.targetBeats) }
             ELSE
               { question("timing_grid", "echo_pattern", tonic, <<"tap_capture">>, "tap_capture", FALSE,
                          "tap:" \o pattern.meter \o ":" \o pattern.subdivision \o ":"
                            \o ToString(pattern.bars)) }

\* lines 840-901, after `quality` is drawn
qualityQuestions(input, tonic, quality) ==
  LET qualityPool == harmonyQualitySet(input.config.harmonyLevel)
      labels == [i \in 1..Len(qualityPool) |-> qualityLabel(qualityPool[i])]
  IN { question("functional_harmony", "quality", tonic, qualityChoices, qualityLabel(quality),
                input.shouldForceSinging, "quality:" \o quality)
       : qualityChoices \in UNION { shuffled(<<qualityLabel(quality)>> \o others)
                                    : others \in sampleDistinct(labels, 3, qualityLabel(quality)) } }

\* lines 285-299
pickProgressionTemplate(input) ==
  LET pool == progressionPool(input.config.tonalMode, input.config.harmonyLevel)
      forcedPath == forcedPart(input.forcedAdaptiveKey, "progression:")
  IN pickMatchingOrWeighted(pool, [i \in 1..Len(pool) |->
                                     Some(progressionToLabel(pool[i].romanPath)) = forcedPath])

\* lines 903-1100, after `template` is drawn
progressionQuestions(input, tonic, template) ==
  LET config == input.config
      key == input.forcedAdaptiveKey
      forcedKind ==
        IF key # Undefined /\ startsWith(key, "cadence:") THEN Some("cadence_type")
        ELSE IF key # Undefined /\ startsWith(key, "changed_position:") THEN Some("changed_chord")
        ELSE IF key # Undefined /\ startsWith(key, "progression:") THEN Some("roman_path")
        ELSE Null
      canonicalPathLabel == progressionToLabel(template.romanPath)
      kinds == IF forcedKind # Null THEN {forcedKind[1]} ELSE progressionQuestionKindForStage(template.stage)
      choiceCount == stageChoiceCount(template.stage)
      stagePool == SelectSeq(progressionPool(config.tonalMode, config.harmonyLevel),
                             LAMBDA candidate : candidate.stage <= template.stage)
      templateChoices == [i \in 1..Len(stagePool) |-> progressionToLabel(stagePool[i].romanPath)]
  IN UNION {
       IF questionKind = "roman_path" THEN
         { question("functional_harmony", "roman_path", tonic, choices, canonicalPathLabel,
                    input.shouldForceSinging, "progression:" \o canonicalPathLabel)
           : choices \in UNION { shuffled(<<canonicalPathLabel>> \o others)
               : others \in sampleDistinct(templateChoices, choiceCount - 1, canonicalPathLabel) } }
       ELSE IF questionKind = "cadence_type" THEN
         { question("functional_harmony", "cadence_type", tonic, choices,
                    cadenceLabel(template.cadenceType), input.shouldForceSinging,
                    "cadence:" \o template.cadenceType)
           : choices \in cadenceChoices(template.cadenceType, template.stage) }
       ELSE IF Len(template.romanPath) < 2 THEN
         \* changedChordVariant returns null: lines 1023-1046
         { question("functional_harmony", "roman_path", tonic, <<canonicalPathLabel>>,
                    canonicalPathLabel, input.shouldForceSinging,
                    "progression:" \o canonicalPathLabel) }
       ELSE
         \* changedChordVariant draws an index from 1 up to the last chord
         UNION { { question("functional_harmony", "changed_chord", tonic, choices,
                            "Chord " \o ToString(index + 1), input.shouldForceSinging,
                            "changed_position:" \o ToString(index + 1))
                   : choices \in changedChordPositionChoices(Len(template.romanPath), index,
                                                             template.stage) }
                 : index \in 1..(Len(template.romanPath) - 1) }
       : questionKind \in kinds }

----------------------------------------------------------------------------
(* Phrase patterns: phrase.ts *)

DEGREE_POOL == <<"1", "2", "3", "4", "5", "6", "7">>
TRIADIC_POOL == <<"1", "3", "5", "6">>
CHROMATIC_POOL == <<"1", "2", "b3", "3", "4", "#4", "5", "6", "b7", "7">>

PhraseLevels == {1, 2, 3}

\* the index runs a row of n calls of pick(arr) is drawn from: always the
\* first element, always the last, or each element in turn
PickRuns(n, length) ==
  { [i \in 1..n |-> 1], [i \in 1..n |-> length], [i \in 1..n |-> ((i - 1) % length) + 1] }

\* the step runs the stepwise walk is drawn from: rising, falling, or turning
StepRuns(n) ==
  { [i \in 1..n |-> 1], [i \in 1..n |-> -1], [i \in 1..n |-> IF i % 2 = 1 THEN 1 ELSE -1] }

\* the walk of lines 82-88: index of each note in DEGREE_POOL (from 0)
RECURSIVE walkFrom(_, _)
walkFrom(idx, steps) ==
  IF steps = <<>> THEN <<>>
  ELSE LET nextIdx == Max(0, Min(Len(DEGREE_POOL) - 1, idx + Head(steps)))
       IN <<DEGREE_POOL[nextIdx + 1]>> \o walkFrom(nextIdx, Tail(steps))

generateBaseDegrees(level, tag, bars) ==
  LET notesPerBar == 4
      totalNotes == bars * notesPerBar
  IN IF tag = "stepwise" THEN { <<"1">> \o walkFrom(0, steps) : steps \in StepRuns(totalNotes - 1) }
     ELSE IF tag = "triadic"
       THEN { [i \in 1..totalNotes |-> TRIADIC_POOL[run[i]]] : run \in PickRuns(totalNotes, Len(TRIADIC_POOL)) }
     ELSE LET source == IF level >= 3 THEN CHROMATIC_POOL ELSE DEGREE_POOL
          IN { [i \in 1..totalNotes |-> source[run[i]]] : run \in PickRuns(totalNotes, Len(source)) }

\* the replacements the retry loop of lines 45-48 is drawn from: the first and
\* the last element of the pool that differ from the note replaced
replacementDraws(pool, current) ==
  LET others == SelectSeq(pool, LAMBDA d : d # current)
  IN IF others = <<>> THEN {} ELSE {others[1], others[Len(others)]}

\* mutateDegrees: one note, the first or the last of the line here, is replaced
mutateDegrees(base, tonalMode) ==
  LET pool == IF tonalMode = "major" THEN DEGREE_POOL ELSE CHROMATIC_POOL
  IN UNION { { [base EXCEPT ![idx] = replacement] : replacement \in replacementDraws(pool, base[idx]) }
             : idx \in {1, Len(base)} }

\* the line cut into bars of four notes and written out
formatMeasures(line, bars) ==
  LET notesPerBar == 4
      groups == [idx \in 1..bars |-> SubSeq(line, (idx - 1) * notesPerBar + 1,
                                            Min(Len(line), idx * notesPerBar))]
  IN join([idx \in 1..bars |-> join(groups[idx], " ")], " | ")

phraseTags(level) ==
  IF level = 1 THEN {"stepwise"}
  ELSE IF level = 2 THEN {"stepwise", "triadic"}
  ELSE {"stepwise", "triadic", "chromatic"}

\* lines 109-113 of makePhrasePattern: the bars, the tag and the line drawn
phraseLines(level) ==
  LET bars == IF level = 1 THEN 2 ELSE Min(4, 2 + level - 1)
  IN UNION { { [ bars |-> bars, tag |-> tag, degrees |-> degrees ]
               : degrees \in generateBaseDegrees(level, tag, bars) }
             : tag \in phraseTags(level) }

\* lines 114-162 of makePhrasePattern: the answer and the three mutated lines
makePhrasePattern(line, tonalMode) ==
  LET correctAnswer == formatMeasures(line.degrees, line.bars)
      wrongs == { formatMeasures(wrong, line.bars) : wrong \in mutateDegrees(line.degrees, tonalMode) }
  IN { [ bars |-> line.bars, tag |-> line.tag, degrees |-> line.degrees,
         answerChoices |-> SubSeq(answerChoices, 1, Min(4, Len(answerChoices))),
         correctAnswer |-> correctAnswer ]
       : answerChoices \in UNION { shuffled(<<correctAnswer, w1, w2, w3>>)
                                   : w1 \in wrongs, w2 \in wrongs, w3 \in wrongs } }

----------------------------------------------------------------------------
(* generateTrainingQuestion: generator.ts *)

\* lines 782-838, after the line of the phrase is drawn
phraseQuestions(input, tonic, line) ==
  { question("phrase_recall", "phrase", tonic, phrase.answerChoices, phrase.correctAnswer, FALSE,
             "phrase:" \o phrase.tag)
    : phrase \in makePhrasePattern(line, input.config.tonalMode) }

isLegacyQualityPrompt(input) ==
  input.forcedAdaptiveKey # Undefined /\ startsWith(input.forcedAdaptiveKey, "quality:")

\* line 363
pickedModes(input) ==
  IF input.forcedMode # Undefined THEN {input.forcedMode} ELSE modeByMix(input.config.modePool)

\* the concept a call draws first in the branch of pickedMode
conceptPicks(input, pickedMode) ==
  LET config == input.config
      key == input.forcedAdaptiveKey
      degrees == degreePool(config.degreeLevel)
      movements == intervalMovementPool(config.intervalLevel)
      qualities == harmonyQualitySet(config.harmonyLevel)
  IN IF pickedMode = "scale_degree" THEN
       picked(pickMatchingOrWeighted(degrees, [i \in 1..Len(degrees) |->
                                                Some(degrees[i]) = forcedPart(key, "degree:")]))
     ELSE IF pickedMode = "functional_interval" THEN
       picked(pickMatchingOrWeighted(movements, [i \in 1..Len(movements) |->
                Some(movements[i][1] \o "->" \o movements[i][2]) = forcedPart(key, "movement:")]))
     ELSE IF pickedMode = "timing_grid" THEN picked(makeTimingPattern(config.timingLevel))
     ELSE IF pickedMode = "phrase_recall" THEN picked(phraseLines(config.phraseLevel))
     ELSE IF isLegacyQualityPrompt(input) THEN
       picked(pickMatchingOrWeighted(qualities, [i \in 1..Len(qualities) |->
                                                  Some(qualities[i]) = forcedPart(key, "quality:")]))
     ELSE picked(pickProgressionTemplate(input))

\* every way a call of generateTrainingQuestion can end once the tonic, the
\* mode and the concept are drawn: the questions it can return, an exception,
\* or no return
generateTrainingQuestion(input, tonic, pickedMode, pick) ==
  IF pick = Null THEN {Threw}
  ELSE IF pickedMode = "scale_degree" THEN scaleDegreeQuestions(input, tonic, pick[1])
  ELSE IF pickedMode = "functional_interval" THEN intervalQuestions(input, tonic, pick[1])
  ELSE IF pickedMode = "timing_grid" THEN timingQuestions(input, tonic, pick[1])
  ELSE IF pickedMode = "phrase_recall" THEN phraseQuestions(input, tonic, pick[1])
  ELSE IF isLegacyQualityPrompt(input) THEN qualityQuestions(input, tonic, pick[1])
  ELSE progressionQuestions(input, tonic, pick[1])

----------------------------------------------------------------------------
(* Calls of generateTrainingQuestion *)

\* predictiveResolutionChance of makeGuidedConfig, in percent
PREDICTIVE_RESOLUTION_CHANCE == 25

\* the levels the GeneratorConfig type allows for the level a mode reads
LevelsOf(mode) ==
  IF mode = "scale_degree" THEN {1, 2, 3}
  ELSE IF mode = "functional_interval" THEN IntervalLevels
  ELSE IF mode = "functional_harmony" THEN {1, 2}
  ELSE IF mode = "timing_grid" THEN TimingLevels
  ELSE PhraseLevels

\* the concepts a caller pins
ForcedKeyPool ==
  { "degree:3", "degree:b7", "movement:2->3", "movement:1->1",
    "progression:I - IV - V", "progression:i - iv - V", "quality:minor7",
    "cadence:plagal", "changed_position:2",
    "meter:3/4", "subdivision:triplet", "syncopation:yes", "syncopation:no",
    "tap:4/4:eighth:1", "phrase:triadic" }

\* makeGuidedConfig with one mode's level and the tonal mode set
ConfigFor(mode, level, tonalMode, modePool) ==
  [ sessionType |-> "guided", modePool |-> modePool, tonicPool |-> NoTonicPool,
    intervalLevel |-> IF mode = "functional_interval" THEN level ELSE 1,
    degreeLevel |-> IF mode = "scale_degree" THEN level ELSE 1,
    harmonyLevel |-> IF mode = "functional_harmony" THEN level ELSE 1,
    timingLevel |-> IF mode = "timing_grid" THEN level ELSE 1,
    phraseLevel |-> IF mode = "phrase_recall" THEN level ELSE 1,
    tonalMode |-> tonalMode, randomTonicEvery |-> 3, singingQuota |-> 50,
    predictiveResolutionChance |-> PREDICTIVE_RESOLUTION_CHANCE ]

GenerateInput(config, forcedMode, forcedAdaptiveKey) ==
  [ config |-> config, questionIndex |-> 0, previousTonic |-> "C", shouldForceSinging |-> TRUE,
    forcedMode |-> forcedMode, forcedAdaptiveKey |-> forcedAdaptiveKey, adaptiveContextKey |-> Undefined ]

Generated(input) ==
  \E tonic \in tonicsFor(input.config, input.questionIndex, input.previousTonic),
     pickedMode \in pickedModes(input) :
    \E pick \in conceptPicks(input, pickedMode) :
      \E result \in generateTrainingQuestion(input, tonic, pickedMode, pick) :
        /\ call' = [ op |-> "generateTrainingQuestion", input |-> input, result |-> result ]
        /\ Quiet

\* the tonal modes a forced mode is called with: the scale-degree and timing
\* branches use the tonal mode for pitches only, and the interval choices of the
\* upper levels are drawn in every tonal mode by BalancedChoices
TonalModesFor(mode, level) ==
  IF mode \in {"scale_degree", "timing_grid"} THEN {"major"}
  ELSE IF mode = "functional_interval" /\ level >= 3 THEN {"major"}
  ELSE TonalModes

\* a question in a forced mode, at every level of the mode, with or without a pinned concept
GenerateForced ==
  /\ Idle
  /\ \E mode \in TrainingModes :
       \E level \in LevelsOf(mode),
          forcedAdaptiveKey \in {Undefined} \cup {k \in ForcedKeyPool : inferModeFromKey(k) = mode} :
         \E tonalMode \in TonalModesFor(mode, level) :
           Generated(GenerateInput(ConfigFor(mode, level, tonalMode, <<mode>>), mode, forcedAdaptiveKey))

\* a question in a mode drawn from the mode pool
GenerateSampled ==
  /\ Idle
  /\ \E tonalMode \in TonalModes, modePool \in {<<>>, <<"functional_harmony", "timing_grid", "phrase_recall">>} :
       Generated(GenerateInput(ConfigFor("scale_degree", 1, tonalMode, modePool), Undefined, Undefined))

NextGenerate == GenerateForced \/ GenerateSampled

SpecGenerate == Init /\ [][NextGenerate]_vars


\* rootMidiFromKey of the twelve tonics in octave 3 or 4
TonicMidiPool == 48..71

\* the chords of a template generateTrainingQuestion can select: line 905
ChordMidis ==
  /\ Idle
  /\ \E tonalMode \in TonalModes, level \in {1, 2}, tonicMidi \in TonicMidiPool :
       LET pool == progressionPool(tonalMode, level)
       IN \E k \in 1..Len(pool) :
            /\ call' = [ op |-> "progressionChordMidis", tonicMidi |-> tonicMidi,
                         tonalMode |-> tonalMode, level |-> level, romanPath |-> pool[k].romanPath,
                         result |-> progressionChordMidis(tonicMidi, tonalMode, pool[k].romanPath) ]
            /\ Quiet

NextHarmony == ChordMidis

SpecHarmony == Init /\ [][NextHarmony]_vars

----------------------------------------------------------------------------
(* Properties of generateTrainingQuestion *)

Generating == call.op = "generateTrainingQuestion"

\* the concept a forced key of the degree, movement or progression family names,
\* when the forced mode is the family's mode and the concept is in the mode's
\* pool for the configured level and tonal mode; null otherwise
forcedConceptInPool(input) ==
  LET key == input.forcedAdaptiveKey
      config == input.config
      degree == forcedPart(key, "degree:")
      movement == forcedPart(key, "movement:")
      path == forcedPart(key, "progression:")
      degrees == degreePool(config.degreeLevel)
      movements == LabelsOf(intervalMovementPool(config.intervalLevel))
      templates == progressionPool(config.tonalMode, config.harmonyLevel)
  IN IF input.forcedMode = "scale_degree" /\ degree # Null
        /\ \E i \in 1..Len(degrees) : degrees[i] = degree[1]
     THEN degree
     ELSE IF input.forcedMode = "functional_interval" /\ movement # Null
        /\ \E i \in 1..Len(movements) : movements[i] = movement[1]
     THEN movement
     ELSE IF input.forcedMode = "functional_harmony" /\ path # Null
        /\ \E i \in 1..Len(templates) : progressionToLabel(templates[i].romanPath) = path[1]
     THEN path
     ELSE Null

\* C12: a call of generateTrainingQuestion with a forced mode and a forced
\* degree:, movement: or progression: key whose concept is in the mode's pool
\* returns a question whose adaptiveFocusKey is the forced key and whose
\* correctAnswer is that concept, whatever the random draws are
C12_ForcedConceptAsked ==
  (Generating /\ forcedConceptInPool(call.input) # Null /\ call.result.status = "returned") =>
    /\ call.result.adaptiveFocusKey = call.input.forcedAdaptiveKey
    /\ call.result.correctAnswer = forcedConceptInPool(call.input)[1]

\* C14: every call of generateTrainingQuestion returns a question: none
\* throws, in any mode, tonal mode and level
C14_AlwaysReturns == Generating => call.result.status = "returned"

Occurrences(list, x) == Cardinality({i \in 1..Len(list) : list[i] = x})

\* C17: in every question generateTrainingQuestion returns, correctAnswer
\* occurs exactly once in answerChoices
C17_CorrectAnswerOnce ==
  (Generating /\ call.result.status = "returned") =>
    Occurrences(call.result.answerChoices, call.result.correctAnswer) = 1

\* a changed-chord question with four choices was returned, the distractors
\* drawn from all the chord positions
C17_FourPositionsOffered ==
  /\ Generating
  /\ call.result.status = "returned"
  /\ call.result.kind = "changed_chord"
  /\ Len(call.result.answerChoices) = 4
  /\ call.result.correctAnswer = "Chord 2"


----------------------------------------------------------------------------
(* Session construction: session.ts *)

MaxReviewAnswers == 2     \* recordAttempt calls before a review session
MaxReviewQuestions == 2   \* largest questionCount of a review session
MaxRotationQuestions == 4 \* questionCount of a session in the rotation specification
MaxSingingQuestions == 3  \* largest questionCount of a session in the singing specification

\* the modes distributeModes draws each entry of questionModes from
distributeModes(modePool) ==
  IF Len(modePool) > 0 THEN {modePool[i] : i \in 1..Len(modePool)}
  ELSE {"scale_degree", "functional_interval", "functional_harmony"}

\* the tonalGroup generateSessionQuestions hands to getReviewFocus
sessionTonalGroup(tonalMode) ==
  IF tonalMode = "major" THEN "major" ELSE IF includes(tonalMode, "minor") THEN "minor" ELSE "mixed"

\* lines 43-51
sessionFocusQueue(config, questionCount, reviewStrategy) ==
  IF reviewStrategy = Undefined THEN <<>>
  ELSE getReviewFocusResult(reviewStrategy, questionCount,
                            [given |-> TRUE, modes |-> {config.modePool[i] : i \in 1..Len(config.modePool)}],
                            sessionTonalGroup(config.tonalMode))

\* variant: the quota is rounded down
singingCountTargetRoundedDown(config, questionCount) == (questionCount * config.singingQuota) \div 100

\* Math.ceil(questionCount * config.singingQuota), the quota in percent
singingCountTarget(config, questionCount) == (questionCount * config.singingQuota + 99) \div 100

\* what the session keeps of a call of generateTrainingQuestion: of a
\* question its mode, tonic, concept and singing flag
asked(q) ==
  IF q.status = "returned"
  THEN [ status |-> "returned", mode |-> q.mode, tonic |-> q.tonic,
         adaptiveFocusKey |-> q.adaptiveFocusKey, enforceSinging |-> q.enforceSinging,
         revealAfterSinging |-> q.revealAfterSinging ]
  ELSE q

\* generateSessionQuestions up to the loop: lines 39-54
startSession(config, questionCount, startTonic, reviewStrategy) ==
  /\ call' = [ op |-> "generateSessionQuestions",
               input |-> [ config |-> config, questionCount |-> questionCount,
                           startTonic |-> startTonic, reviewStrategy |-> reviewStrategy ],
               focusQueue |-> sessionFocusQueue(config, questionCount, reviewStrategy),
               i |-> 0, tonic |-> startTonic, out |-> <<>>,
               status |-> IF questionCount > 0 THEN "looping" ELSE "returned" ]
  /\ Quiet

\* one pass of the loop of lines 55-70; the entry of questionModes is drawn
\* when the pass reads it
SessionStep ==
  /\ call.op = "generateSessionQuestions"
  /\ call.status = "looping"
  /\ LET config == call.input.config
         questionCount == call.input.questionCount
         i == call.i
         focus == IF i < Len(call.focusQueue) THEN Some(call.focusQueue[i + 1]) ELSE Null
         shouldForceSinging ==
           IF i < singingCountTarget(config, questionCount) THEN TRUE
           ELSE config.sessionType = "free" /\ config.singingQuota > 0
         questionModes ==
           IF config.sessionType = "guided" THEN distributeModes(config.modePool) ELSE {Undefined}
     IN \E forcedMode \in (IF focus # Null THEN {focus[1].mode} ELSE questionModes) :
          LET input == [ config |-> config, questionIndex |-> i, previousTonic |-> call.tonic,
                         shouldForceSinging |-> shouldForceSinging, forcedMode |-> forcedMode,
                         forcedAdaptiveKey |-> IF focus # Null THEN focus[1].key ELSE Undefined,
                         adaptiveContextKey |-> IF focus # Null THEN focus[1].context ELSE Undefined ]
          IN \E tonic \in tonicsFor(config, i, call.tonic), pickedMode \in pickedModes(input) :
               \E pick \in conceptPicks(input, pickedMode) :
                 \E q \in { asked(result) : result \in generateTrainingQuestion(input, tonic, pickedMode, pick) } :
                   call' = IF q.status = "returned"
                           THEN [ call EXCEPT !.i = i + 1, !.tonic = q.tonic,
                                              !.out = Append(call.out, q),
                                              !.status = IF i + 1 < questionCount THEN "looping"
                                                         ELSE "returned" ]
                           ELSE [ call EXCEPT !.status = IF q.status = "threw" THEN "threw" ELSE "stuck" ]
  /\ Quiet

\* one concept of every family getReviewFocus returns
ReviewKeys ==
  { "degree:3", "movement:2->3", "quality:minor", "progression:I - V", "cadence:half",
    "changed_position:2", "meter:4/4", "subdivision:eighth", "syncopation:no",
    "tap:4/4:eighth:1", "phrase:stepwise" }

\* the contextKey logTrainingAttempt builds for a question of the mode in major
contextKeyFor(mode) ==
  mode \o ":" \o (IF mode = "functional_harmony" THEN "harmonic" ELSE "melodic") \o ":major"

BeforeSession == call.op \in {"init", "recordAttempt"}

\* wrong answers to questions of earlier sessions, all of one practice mode
ReviewAnswer ==
  /\ BeforeSession
  /\ Answered < MaxReviewAnswers
  /\ \E itemId \in ItemPool, responseMs \in ResponsePool, key \in ReviewKeys :
       /\ \A k \in 1..Len(getProgress.adaptive) : getProgress.adaptive[k].mode = inferModeFromKey(key)
       /\ recordAttempt(itemId, inferModeFromKey(key), FALSE, responseMs,
                        contextKeyFor(inferModeFromKey(key)), <<key>>)

\* the modes a review session is started in: the mode practised so far
practisedModes ==
  IF getProgress.adaptive = <<>> THEN TrainingModes
  ELSE {getProgress.adaptive[k].mode : k \in 1..Len(getProgress.adaptive)}

\* a review session of one mode at the levels of makeGuidedConfig
ReviewSession ==
  /\ BeforeSession
  /\ \E reviewStrategy \in {"due", "weak"}, questionCount \in 1..MaxReviewQuestions,
        mode \in practisedModes :
       startSession(ConfigFor(mode, 1, "major", <<mode>>), questionCount, "C", reviewStrategy)

NextReview == ReviewAnswer \/ ReviewSession \/ SessionStep

SpecReview == Init /\ [][NextReview]_vars

\* buildQuickplayTonicPool("C")
QuickplayTonicPool == [given |-> TRUE, notes |-> <<"C", "G", "F">>]

\* a session without review, with and without tonic rotation
RotationSession ==
  /\ BeforeSession
  /\ \E randomTonicEvery \in {2, 3, -1}, tonicPool \in {NoTonicPool, QuickplayTonicPool},
        startTonic \in {"C", "D"}, mode \in {"functional_harmony", "phrase_recall"},
        sessionType \in {"guided", "free"} :
       startSession([ ConfigFor(mode, 1, "major", <<mode>>) EXCEPT
                        !.randomTonicEvery = randomTonicEvery, !.tonicPool = tonicPool,
                        !.sessionType = sessionType ],
                    MaxRotationQuestions, startTonic, Undefined)

NextRotation == RotationSession \/ SessionStep

SpecRotation == Init /\ [][NextRotation]_vars

\* sessions of timing, phrase and harmony questions under every kind of singing quota
SingingSession ==
  /\ BeforeSession
  /\ \E sessionType \in {"guided", "free"}, singingQuota \in {0, 50, 100},
        questionCount \in 1..MaxSingingQuestions :
       startSession([ ConfigFor("timing_grid", 1, "major",
                                <<"timing_grid", "phrase_recall", "functional_harmony">>) EXCEPT
                        !.sessionType = sessionType, !.singingQuota = singingQuota,
                        !.randomTonicEvery = 0 - 1 ],
                    questionCount, "C", Undefined)

NextSinging == SingingSession \/ SessionStep

SpecSinging == Init /\ [][NextSinging]_vars

----------------------------------------------------------------------------
(* Properties of generateSessionQuestions *)

InSession == call.op = "generateSessionQuestions"

\* C13: in a review session, every question whose index is below the length
\* of the review queue has the mode and the adaptiveFocusKey of the queue entry
\* at that index
C13_QueuePinned ==
  InSession =>
    \A k \in 1..Min(Len(call.out), Len(call.focusQueue)) :
      /\ call.out[k].mode = call.focusQueue[k].mode
      /\ call.out[k].adaptiveFocusKey = call.focusQueue[k].key

\* the notes a rotated tonic is drawn from
allowedTonics(config) ==
  IF config.tonicPool.given THEN {config.tonicPool.notes[i] : i \in 1..Len(config.tonicPool.notes)}
  ELSE {NOTE_NAMES[i] : i \in 1..Len(NOTE_NAMES)}

\* C15: with randomTonicEvery = N, the tonic of the question at a non-zero
\* multiple of N is a note of the allowed pool other than the tonic before it;
\* the tonic of every other question, and of every question when N <= 0, is the
\* tonic before it, startTonic for the first
C15_TonicRotation ==
  InSession =>
    \A k \in 1..Len(call.out) :
      LET N == call.input.config.randomTonicEvery
          index == k - 1
          before == IF k = 1 THEN call.input.startTonic ELSE call.out[k - 1].tonic
      IN IF N > 0 /\ index > 0 /\ index % N = 0
         THEN call.out[k].tonic \in allowedTonics(call.input.config) /\ call.out[k].tonic # before
         ELSE call.out[k].tonic = before

\* a returned session of four questions rotated every two: the first two in
\* the start tonic D, the last two in one note of the pool C, G, F
C15_RotatedOnce ==
  /\ InSession
  /\ call.status = "returned"
  /\ call.input.config.randomTonicEvery = 2
  /\ call.input.config.tonicPool.given
  /\ call.input.startTonic = "D"
  /\ Len(call.out) = 4
  /\ call.out[2].tonic = "D"
  /\ call.out[3].tonic = "G"
  /\ call.out[4].tonic = "G"

----------------------------------------------------------------------------
(* Resetting the progress state *)

MaxResetAttempts == 2   \* recordAttempt calls counted by the totals in the reset specification

\* the object literal of lines 92-97
EmptyProgress ==
  [ attempts |-> 0, items |-> <<>>, adaptive |-> <<>>,
    totals |-> [ attempts |-> 0, correct |-> 0, streak |-> 0, bestStreak |-> 0 ] ]

\* writeLocal(KEY, DEFAULT_PROGRESS): the object as it is at the call
resetProgress ==
  /\ localStorage' = [k \in DOMAIN localStorage \cup {KEY} |->
                        IF k = KEY THEN DEFAULT_PROGRESS ELSE localStorage[k]]
  /\ call' = [ op |-> "resetProgress" ]
  /\ UNCHANGED <<DEFAULT_PROGRESS, now, tabs>>

\* location.reload(): the module is evaluated again, the storage stays
Reload ==
  /\ DEFAULT_PROGRESS' = EmptyProgress
  /\ call' = [ op |-> "reload" ]
  /\ UNCHANGED <<localStorage, now, tabs>>

ResetAnswer ==
  /\ Answered < MaxResetAttempts
  /\ \E itemId \in ItemPool, correct \in BOOLEAN, responseMs \in ResponsePool,
        contextKey \in ContextPool, adaptiveKeys \in KeyLists :
       recordAttempt(itemId, "scale_degree", correct, responseMs, contextKey, adaptiveKeys)

NextReset == ResetAnswer \/ resetProgress \/ Reload

SpecReset == Init /\ [][NextReset]_vars

----------------------------------------------------------------------------
(* recordAttempt in two pages on one storage.  Each page evaluates the module *)
(* itself and has its own DEFAULT_PROGRESS; a page runs recordAttempt without *)
(* interruption of its own, but between its getItem (line 256) and its        *)
(* setItem (line 354) the other page may read or write the storage.           *)

MaxTabAttempts == 2     \* recordAttempt is begun while the stored total is below this

\* getProgress as page t evaluates it
tabProgress(t) ==
  LET raw == readLocal(KEY, tabs[t].DEFAULT_PROGRESS)
  IN [ attempts |-> raw.attempts,
       items |-> normalizeItems(raw.items),
       adaptive |-> normalizeAdaptive(raw.adaptive),
       totals |-> raw.totals ]

\* lines 256-257 in page t.  overtaken counts the writes of the other page
\* since this read, raced tells that this read and the other page's read both
\* came before either write; the two are history kept for the properties
beginRecordAttempt(t, itemId, correct, responseMs, contextKey, adaptiveKeys) ==
  /\ tabs[t].pc = "idle"
  /\ tabs' = [tabs EXCEPT ![t] =
       [ pc |-> "read", DEFAULT_PROGRESS |-> tabs[t].DEFAULT_PROGRESS,
         s |-> tabProgress(t), fromDefault |-> KEY \notin DOMAIN localStorage,
         input |-> [ itemId |-> itemId, correct |-> correct, responseMs |-> responseMs,
                     contextKey |-> contextKey, adaptiveKeys |-> adaptiveKeys ],
         ts |-> now, overtaken |-> 0, raced |-> FALSE ]]
  /\ call' = [ op |-> "beginRecordAttempt", tab |-> t ]
  /\ UNCHANGED <<localStorage, DEFAULT_PROGRESS, now>>

\* variant: the state is read again right before it is written, so the
\* attempt is applied to what the storage holds at that time
writtenByRereading(t) ==
  RecordedState(tabProgress(t), tabs[t].input.itemId, tabs[t].input.correct,
                tabs[t].input.responseMs, tabs[t].input.contextKey, tabs[t].input.adaptiveKeys,
                tabs[t].ts)

\* the object page t hands to writeLocal: the state it read, with its attempt
writtenBy(t) ==
  RecordedState(tabs[t].s, tabs[t].input.itemId, tabs[t].input.correct,
                tabs[t].input.responseMs, tabs[t].input.contextKey, tabs[t].input.adaptiveKeys,
                tabs[t].ts)

\* lines 259-354 in page t
finishRecordAttempt(t) ==
  /\ tabs[t].pc = "read"
  /\ LET written == writtenBy(t)
     IN /\ localStorage' = [k \in DOMAIN localStorage \cup {KEY} |->
                              IF k = KEY THEN written ELSE localStorage[k]]
        /\ tabs' = [u \in Tabs |->
             IF u = t
             THEN [ pc |-> "idle",
                    DEFAULT_PROGRESS |->
                      IF tabs[t].fromDefault
                      THEN [ tabs[t].DEFAULT_PROGRESS EXCEPT
                               !.attempts = written.attempts, !.totals = written.totals ]
                      ELSE tabs[t].DEFAULT_PROGRESS ]
             ELSE IF tabs[u].pc = "read"
             THEN [ tabs[u] EXCEPT
                      !.overtaken = Min(2, tabs[u].overtaken + 1),
                      !.raced = tabs[u].raced \/ (tabs[u].overtaken = 0 /\ tabs[t].overtaken = 0) ]
             ELSE tabs[u]]
        /\ call' = [ op |-> "finishRecordAttempt", tab |-> t, input |-> tabs[t].input,
                     read |-> tabs[t].s, before |-> tabProgress(t),
                     overtaken |-> tabs[t].overtaken, raced |-> tabs[t].raced ]
  /\ UNCHANGED <<DEFAULT_PROGRESS, now>>

StoredAttempts == IF KEY \in DOMAIN localStorage THEN localStorage[KEY].totals.attempts ELSE 0

TabBegin ==
  /\ StoredAttempts < MaxTabAttempts
  /\ \E t \in Tabs, itemId \in ItemPool, correct \in BOOLEAN, responseMs \in ResponsePool,
        adaptiveKeys \in QueueKeyLists :
       beginRecordAttempt(t, itemId, correct, responseMs, DrillContext, adaptiveKeys)

TabFinish == \E t \in Tabs : finishRecordAttempt(t)

NextTabs == TabBegin \/ TabFinish

SpecTabs == Init /\ [][NextTabs]_vars

----------------------------------------------------------------------------
(* Properties of the interval names and chord spellings *)

\* C21: intervalNameFromSemitones returns a canonical interval name for every
\* semitone count from 1 to 12, and the raw text "<n> semitones" for every
\* other count (0, negative, above 12).
C21_IntervalNames ==
  call.op = "intervalNameFromSemitones" =>
    IF call.semitones \in 1..12
    THEN call.result # semitonesText(call.semitones)
    ELSE call.result = semitonesText(call.semitones)

\* the scale-degree offset of a numeral of the selectable templates
OwnOffset(roman) ==
  CASE roman \in {"I", "i"} -> 0
    [] roman = "ii" -> 2
    [] roman \in {"IV", "iv"} -> 5
    [] roman = "V" -> 7

\* C24: for every tonal mode and harmony level, each Roman numeral of each
\* template of progressionPool is resolved by progressionChordMidis to the
\* triad whose root is the tonic plus the numeral's own scale-degree offset
\* (I/i -> 0, ii -> 2, IV/iv -> 5, V -> 7) with the quality the table of the
\* tonal mode defines for it; no numeral is resolved through the default
\* tonic-chord fallback, modal mode included.
C24_ChordsOfTemplate ==
  call.op = "progressionChordMidis" =>
    /\ Len(call.result) = Len(call.romanPath)
    /\ \A k \in 1..Len(call.romanPath) :
         LET roman == call.romanPath[k]
             chord == call.result[k]
         IN /\ roman \in DOMAIN romanTable(call.tonalMode)
            /\ chord[1] = call.tonicMidi + OwnOffset(roman)
            /\ chord = triadFromRoot(chord[1], romanTable(call.tonalMode)[roman].quality)

----------------------------------------------------------------------------
(* Properties of the persisted progress state *)

\* the value stored under KEY by the last write
Stored == localStorage[KEY]

\* C22: every bucket written by recordAttempt is read back through getProgress
\* and normalizeAdaptive with identical attempts, correct, wrong, mastery,
\* intervalDays and dueAt; normalization is the identity on the well-formed
\* buckets that were written and is idempotent.
C22_RoundTrip ==
  call.op = "recordAttempt" =>
    LET written == Stored.adaptive
        read == getProgress.adaptive
    IN /\ Len(read) = Len(written)
       /\ \A i \in 1..Len(written) :
            /\ read[i].id = written[i].id
            /\ read[i].attempts = written[i].attempts
            /\ read[i].correct = written[i].correct
            /\ read[i].wrong = written[i].wrong
            /\ read[i].mastery = written[i].mastery
            /\ read[i].intervalDays = written[i].intervalDays
            /\ read[i].dueAt = written[i].dueAt
       /\ normalizeAdaptive(written) = written
       /\ normalizeAdaptive(read) = read

\* a bucket that was answered wrong once and has since been scheduled a day or
\* more ahead is read back as written
C22_ScheduledBucketReadBack ==
  /\ call.op = "recordAttempt"
  /\ \E i \in 1..Len(Stored.adaptive) :
       /\ Stored.adaptive[i].wrong >= 1
       /\ Stored.adaptive[i].intervalDays >= 1
       /\ Stored.adaptive[i].mastery < SCALE
       /\ getProgress.adaptive[i] = Stored.adaptive[i]

----------------------------------------------------------------------------
(* Properties of the singing quota *)

\* Math.ceil(questionCount * quota) for a quota in percent
QuotaCeiling(questionCount, quota) ==
  CHOOSE n \in 0..questionCount : 100 * n >= questionCount * quota /\ 100 * (n - 1) < questionCount * quota

Tagged(q) == q.enforceSinging /\ q.revealAfterSinging

\* C23: in the list generateSessionQuestions returns, the questions tagged to
\* require singing (enforceSinging and revealAfterSinging) are exactly the
\* leading ceil(questionCount * singingQuota) questions.
C23_LeadingQuotaTagged ==
  (InSession /\ call.status = "returned") =>
    \A k \in 1..Len(call.out) :
      Tagged(call.out[k]) <=>
        k <= QuotaCeiling(call.input.questionCount, call.input.config.singingQuota)

\* C23 as amended: a question is tagged exactly when its mode is neither
\* timing_grid nor phrase_recall and it is one of the leading
\* ceil(questionCount * singingQuota) questions or the session is free with a
\* positive quota; the two flags agree
C23_TaggedByQuotaAndMode ==
  (InSession /\ call.status = "returned") =>
    \A k \in 1..Len(call.out) :
      LET config == call.input.config
          q == call.out[k]
      IN /\ q.enforceSinging = q.revealAfterSinging
         /\ Tagged(q) <=>
              /\ q.mode \notin {"timing_grid", "phrase_recall"}
              /\ \/ k <= QuotaCeiling(call.input.questionCount, config.singingQuota)
                 \/ config.sessionType = "free" /\ config.singingQuota > 0

\* a free session of three questions with quota one half: the leading timing
\* and phrase questions are not tagged, the harmony question after the quota is
C23_FreeSessionPastQuota ==
  /\ InSession
  /\ call.status = "returned"
  /\ call.input.config.sessionType = "free"
  /\ call.input.config.singingQuota = 50
  /\ Len(call.out) = 3
  /\ call.out[1].mode = "timing_grid" /\ ~Tagged(call.out[1])
  /\ call.out[2].mode = "phrase_recall" /\ ~Tagged(call.out[2])
  /\ call.out[3].mode = "functional_harmony" /\ Tagged(call.out[3])

----------------------------------------------------------------------------
(* Properties of the syncopation question *)

OffbeatAsked ==
  /\ call.op = "generateTrainingQuestion"
  /\ call.result.status = "returned"
  /\ call.result.kind = "offbeat_pick"

\* the pattern has an onset off the integer beats
HasOffbeatOnset(targetBeats) == \E i \in 1..Len(targetBeats) : targetBeats[i] % BEAT # 0

\* C29: for every offbeat_pick question, with or without a forced key
\* syncopation:yes / syncopation:no, correctAnswer is "syncopated" exactly when
\* targetBeats has an onset off the integer beats, which is exactly when
\* adaptiveFocusKey is syncopation:yes and the feedback title is "syncopated".
C29_SyncopationAnswer ==
  OffbeatAsked =>
    LET q == call.result
        offbeat == HasOffbeatOnset(q.targetBeats)
    IN /\ (q.correctAnswer = "syncopated") <=> offbeat
       /\ (q.correctAnswer = "on beat only") <=> ~offbeat
       /\ (q.adaptiveFocusKey = "syncopation:yes") <=> offbeat
       /\ (q.feedbackTitle = "syncopated") <=> offbeat

----------------------------------------------------------------------------
(* Termination of makeTimingPattern *)

\* C25: makeTimingPattern returns for every timing level and every meter and
\* subdivision it can pick: the target count drawn by generateTargetBeats never
\* exceeds the number of distinct grid slots, so the onset-filling loop ends.
C25_TimingPatternReturns ==
  call.op = "makeTimingPattern" =>
    /\ call.result.drawn.targetCount <= call.result.drawn.slots
    /\ call.result.returned

----------------------------------------------------------------------------
(* Properties of resetProgress *)

\* C26: after resetProgress, also when earlier recordAttempt calls ran while no
\* progress had been persisted, getProgress returns the empty state: no attempt
\* records, no items, no adaptive buckets, and all four totals 0.
C26_ResetEmpties ==
  call.op = "resetProgress" =>
    /\ getProgress.attempts = 0
    /\ DOMAIN getProgress.items = {}
    /\ Len(getProgress.adaptive) = 0
    /\ getProgress.totals = [ attempts |-> 0, correct |-> 0, streak |-> 0, bestStreak |-> 0 ]

----------------------------------------------------------------------------
(* Properties of recordAttempt in two pages *)

\* the ids of the buckets the attempt of the last write names
WrittenIds == { call.input.contextKey \o "::" \o call.input.adaptiveKeys[i]
                : i \in 1..Len(call.input.adaptiveKeys) }

\* C27: recordAttempt reads the whole state, modifies it and writes the whole
\* state without a lock.  When two invocations both read before either writes,
\* the state stored after the second write holds the later writer's update
\* only: totals.attempts and the attempts of its bucket are 1, not 2, above
\* what both read, and the earlier writer's update is gone.  An invocation that
\* no write interleaves with raises totals.attempts by exactly 1.
C27_LaterWriterOnly ==
  call.op = "finishRecordAttempt" =>
    LET read == call.read
        before == call.before
        after == getProgress
    IN /\ call.overtaken = 0 =>
            /\ after.totals.attempts = before.totals.attempts + 1
            /\ after.attempts = before.attempts + 1
       /\ (call.raced /\ call.overtaken = 1) =>
            /\ before.totals.attempts = read.totals.attempts + 1
            /\ after.totals.attempts = read.totals.attempts + 1
            /\ \A id \in WrittenIds :
                 BucketIn(after.adaptive, id).attempts = BucketIn(read.adaptive, id).attempts + 1
            /\ IdsOf(after.adaptive) = IdsOf(read.adaptive) \cup WrittenIds
            /\ \A id \in IdsOf(after.adaptive) \ WrittenIds :
                 BucketIn(after.adaptive, id) = BucketIn(read.adaptive, id)

\* both pages read the empty storage; one stored an answer to degree:5, then
\* the other stored an answer to degree:3: one attempt and one bucket remain
C27_FirstAnswerLost ==
  /\ call.op = "finishRecordAttempt"
  /\ call.raced /\ call.overtaken = 1
  /\ call.read.totals.attempts = 0
  /\ call.input.adaptiveKeys = <<"degree:3">>
  /\ IdsOf(call.before.adaptive) = {"scale_degree:melodic:major::degree:5"}
  /\ getProgress.totals.attempts = 1
  /\ IdsOf(getProgress.adaptive) = {"scale_degree:melodic:major::degree:3"}

----------------------------------------------------------------------------
(* The buckets a recordAttempt call leaves alone *)

\* the ids C::k of the last recordAttempt call, C being "global" without a contextKey
NamedIds ==
  { (IF call.contextKey = Undefined THEN "global" ELSE call.contextKey) \o "::" \o call.adaptiveKeys[i]
    : i \in 1..Len(call.adaptiveKeys) }

\* C28: recordAttempt with contextKey C and adaptiveKeys K changes only the
\* buckets with id C::k for k in K, creating each on its first attempt; every
\* other bucket, the one of the same key under another context included, keeps
\* all its fields, and no bucket is removed.
C28_OtherBucketsKept ==
  call.op = "recordAttempt" =>
    LET before == call.before
        after == Buckets
    IN /\ IdsOf(after) = IdsOf(before) \cup NamedIds
       /\ Len(after) = Cardinality(IdsOf(after))
       /\ \A i \in 1..Len(before) :
            before[i].id \notin NamedIds => after[i] = before[i]
       /\ \A id \in NamedIds :
            /\ BucketIn(after, id).attempts > BucketIn(before, id).attempts
            /\ BucketIn(after, id).lastSeen = call.ts

\* degree:3 answered in a minor harmonic context after it was answered in the
\* major melodic one: the major bucket is as it was, the minor one is new
C28_SameKeyOtherContext ==
  /\ call.op = "recordAttempt"
  /\ call.contextKey = "functional_harmony:harmonic:minor"
  /\ call.adaptiveKeys = <<"degree:3", "degree:3">>
  /\ IdsOf(call.before) = {"scale_degree:melodic:major::degree:3"}
  /\ IdsOf(Buckets) = {"scale_degree:melodic:major::degree:3", "functional_harmony:harmonic:minor::degree:3"}
  /\ Buckets[1] = call.before[1]
  /\ Buckets[2].attempts = 2

----------------------------------------------------------------------------
(* The schedule of a bucket and the due queue *)

\* the schedule written by lines 338-347: due at lastSeen plus the interval,
\* and an interval only after a correct answer at full confidence
Scheduled(bucket) ==
  /\ bucket.dueAt = bucket.lastSeen + bucket.intervalDays * DAY_MS
  /\ bucket.intervalDays \in IntervalSteps
  /\ bucket.intervalDays > 0 =>
       /\ bucket.lastOutcomeCorrect
       /\ Confident(bucket)
       /\ bucket.attempts >= 9
  /\ bucket.attempts < 9 => bucket.dueAt <= bucket.lastSeen

Returned(bucket) ==
  \E j \in 1..Len(call.result) :
    call.result[j].key = bucket.key /\ call.result[j].context = bucket.context

\* a due review with room for every stored bucket
RoomyDueReview == Reviewed("due") /\ call.limit >= Len(Buckets)

\* C30 as stated: every bucket is due at lastSeen + intervalDays * 24h with
\* intervalDays in {0,1,3,7,14,30}, positive only after a correct answer at
\* mastery >= 0.82 and at least 9 attempts; and a bucket with fewer than 9
\* attempts is returned by the due queue at any later time.
C30_DueUntilNinthAttempt ==
  /\ \A i \in 1..Len(Buckets) : Scheduled(Buckets[i])
  /\ RoomyDueReview =>
       \A i \in 1..Len(Buckets) : Buckets[i].attempts < 9 => Returned(Buckets[i])

\* C30, amended: the schedule holds of every bucket, and a bucket with fewer
\* than 9 attempts is returned by the due queue at any later time when its key
\* has a prefix the queue recognizes.
C30_RecognizedDueUntilNinthAttempt ==
  /\ \A i \in 1..Len(Buckets) : Scheduled(Buckets[i])
  /\ RoomyDueReview =>
       \A i \in 1..Len(Buckets) :
         (Buckets[i].attempts < 9 /\ Recognized(Buckets[i].key)) => Returned(Buckets[i])

\* the drilled concept rests after its ninth answer while a young degree:
\* concept is returned days after its answer and a young resolution: concept,
\* as long due, is not
C30_YoungReturnedOldResting ==
  /\ RoomyDueReview
  /\ \E i \in 1..Len(Buckets) :
       /\ Buckets[i].key = "degree:3" /\ Buckets[i].attempts = 9
       /\ Buckets[i].intervalDays = 1 /\ ~Returned(Buckets[i])
  /\ \E i \in 1..Len(Buckets) :
       /\ Buckets[i].key = "degree:5" /\ Buckets[i].attempts < 9
       /\ Buckets[i].lastSeen < call.ts /\ Returned(Buckets[i])
  /\ \E i \in 1..Len(Buckets) :
       /\ Buckets[i].key = "resolution:7->1" /\ Buckets[i].attempts < 9
       /\ Buckets[i].lastSeen < call.ts /\ DueBy(Buckets[i], call.ts) /\ ~Returned(Buckets[i])

====
